---- MODULE Spec2Model ----
(***************************************************************************)
(* Verification model of foreverycc/StockSignalDashboard.                  *)
(*                                                                         *)
(* One module, several specifications, one per component:                  *)
(*   SpecIndicator  indicators.py            compute_cd_indicator          *)
(*                                                                         *)
(* Conventions.                                                            *)
(*  - Sequences are 1-based here and 0-based in the source: position p of  *)
(*    a model sequence is index p-1 of the pandas Series.                  *)
(*  - Floating point prices and EMAs are decimal fixed point: a price p is *)
(*    the integer p * Scale, and every division rounds towards minus       *)
(*    infinity.                                                            *)
(*  - NaN / None is the empty sequence <<>>, a defined number v is <<v>>,  *)
(*    so that a comparison with an undefined operand is FALSE exactly as   *)
(*    in pandas.                                                           *)
(***************************************************************************)
EXTENDS Integers, Sequences, FiniteSets, TLC

\* ------------------------------------------------------------------------
\* Bounds of the model
\* ------------------------------------------------------------------------
\* longest close series handed to compute_cd_indicator
MaxBars == 9
\* closes are drawn from 1..MaxPrice
MaxPrice == 4
\* fixed-point scale of prices and EMAs
Scale == 10000
\* the evaluator is given series of up to max(periods) + EvalSlack bars
EvalSlack == 6
\* signal dates of the detail files are 1..MaxDate
MaxDate == 4
\* intraday frames handed to the resampler span 1..IntradayDays dates
IntradayDays == 2
\* daily frames handed to the weekly resample span 1..MaxWeeks weeks
MaxWeeks == 3
\* analyze_stocks is given up to MaxStocks tickers
MaxStocks == 3
\* the batch size and the number of worker processes of analyze_stocks
BatchSize == 2
NumProcesses == 2
\* the companion classifier is given series of 150 + CompSlack bars, with the CD occurrence up to index 49 + CompSlack
CompSlack == 3

\* ------------------------------------------------------------------------
\* Program constants
\* ------------------------------------------------------------------------
EMA_WARMUP_PERIOD == 50

\* ------------------------------------------------------------------------
\* Generic helpers
\* ------------------------------------------------------------------------
NaN == <<>>

Val(v) == <<v>>

IsNaN(x) == x = <<>>

\* a < b on possibly undefined operands: False when either is NaN
Lt(a, b) == a # <<>> /\ b # <<>> /\ a[1] < b[1]

Abs(x) == IF x < 0 THEN 0 - x ELSE x

Min2(a, b) == IF a <= b THEN a ELSE b

Max2(a, b) == IF a >= b THEN a ELSE b

\* all sequences over S of length 0..n
RECURSIVE SeqsUpTo(_, _)
SeqsUpTo(S, n) ==
    IF n = 0 THEN {<<>>}
    ELSE LET shorter == SeqsUpTo(S, n - 1)
         IN shorter \cup {Append(s, x) : s \in {t \in shorter : Len(t) = n - 1}, x \in S}

\* ------------------------------------------------------------------------
\* indicators.py
\* ------------------------------------------------------------------------
\* Series.ewm(span=span, adjust=False).mean(): y[0] = x[0],
\* y[i] = (1 - a) * y[i-1] + a * x[i] with a = 2 / (span + 1)
RECURSIVE ewm_from(_, _, _, _)
ewm_from(x, span, i, acc) ==
    IF i > Len(x) THEN acc
    ELSE ewm_from(x, span, i + 1,
            Append(acc, IF i = 1 THEN x[1]
                        ELSE ((span - 1) * acc[i - 1] + 2 * x[i]) \div (span + 1)))

ewm(x, span) == ewm_from(x, span, 1, <<>>)

\* Series.shift(1): position 1 becomes NaN, position i takes the value of i-1
shift1(x) == [i \in 1..Len(x) |-> IF i = 1 THEN NaN ELSE Val(x[i - 1])]

\* last_event is carried as a model position (0 = no event seen yet, the
\* source's -1)
RECURSIVE barslast_from(_, _, _, _)
barslast_from(cross_events, i, last_event, acc) ==
    IF i > Len(cross_events) THEN acc
    ELSE LET le == IF cross_events[i] THEN i ELSE last_event
         IN barslast_from(cross_events, i + 1, le,
                Append(acc, IF le # 0 THEN i - le ELSE 0))

\* a variant that counts from the first bar while no event has been seen
_compute_barslast_since_start(cross_events) ==
    barslast_from(cross_events, 1, 1, <<>>)

_compute_barslast(cross_events) ==
    barslast_from(cross_events, 1, 0, <<>>)

RECURSIVE MinOver(_, _, _)
MinOver(series, lo, hi) ==
    IF lo = hi THEN series[lo] ELSE Min2(series[lo], MinOver(series, lo + 1, hi))

_compute_llv(series, periods) ==
    [i \in 1..Len(series) |->
        IF periods[i] > 0
        THEN Val(MinOver(series, Max2(1, i - periods[i] + 1), i))
        ELSE NaN]

\* variant of _compute_ref: a lag that reaches before the first bar gives
\* the value at the first bar
_compute_ref_clamped(series, lags) ==
    [i \in 1..Len(series) |-> series[Max2(1, i - lags[i])]]

\* series holds possibly undefined values; lag <= i on 0-based i is
\* lags[i] <= i - 1 on a model position
_compute_ref(series, lags) ==
    [i \in 1..Len(series) |->
        IF lags[i] <= i - 1 THEN series[i - lags[i]] ELSE NaN]

\* variant of jjj: the raw condition is taken at the bar itself
jjj_same_bar(ccc, diff, i) ==
    /\ i > 1 /\ ccc[i]
    /\ Abs(diff[i - 1]) * 100 >= Abs(diff[i]) * 101

\* jjj = ccc.shift(1) & (abs(diff.shift(1)) >= abs(diff) * 1.01), at
\* position i; the comparison is made in hundredths
jjj_at(ccc, diff, i) ==
    /\ i > 1 /\ ccc[i - 1]
    /\ Abs(diff[i - 1]) * 100 >= Abs(diff[i]) * 101

\* variant of dxdx: the qualifying condition itself
dxdx_level(jjj, i) == jjj[i]

\* dxdx = jjj & ~jjj.shift(1, fill_value=False), at position i
dxdx_at(jjj, i) == jjj[i] /\ ~(i > 1 /\ jjj[i - 1])

\* the intermediate series of compute_cd_indicator, as a record
cd_series(close) ==
    LET n        == Len(close)
        fast_ema == ewm(close, 12)
        slow_ema == ewm(close, 26)
        diff     == [i \in 1..n |-> fast_ema[i] - slow_ema[i]]
        dea      == ewm(diff, 9)
        mcd      == [i \in 1..n |-> (diff[i] - dea[i]) * 2]
        mcd1     == shift1(mcd)
        cross_down == [i \in 1..n |-> mcd1[i] # NaN /\ mcd1[i][1] >= 0 /\ mcd[i] < 0]
        cross_up   == [i \in 1..n |-> mcd1[i] # NaN /\ mcd1[i][1] <= 0 /\ mcd[i] > 0]
        n1       == _compute_barslast(cross_down)
        mm1      == _compute_barslast(cross_up)
        n1_safe  == [i \in 1..n |-> n1[i] + 1]
        mm1_safe == [i \in 1..n |-> mm1[i] + 1]
        cc1      == _compute_llv(close, n1_safe)
        cc2      == _compute_ref(cc1, mm1_safe)
        cc3      == _compute_ref(cc2, mm1_safe)
        difl1    == _compute_llv(diff, n1_safe)
        difl2    == _compute_ref(difl1, mm1_safe)
        difl3    == _compute_ref(difl2, mm1_safe)
        aaa      == [i \in 1..n |-> /\ Lt(cc1[i], cc2[i]) /\ Lt(difl2[i], difl1[i])
                                    /\ Lt(mcd1[i], Val(0)) /\ diff[i] < 0]
        bbb      == [i \in 1..n |-> /\ Lt(cc1[i], cc3[i]) /\ Lt(difl1[i], difl2[i])
                                    /\ Lt(difl3[i], difl1[i])
                                    /\ Lt(mcd1[i], Val(0)) /\ diff[i] < 0]
        ccc      == [i \in 1..n |-> aaa[i] \/ bbb[i]]
        jjj      == [i \in 1..n |-> jjj_at(ccc, diff, i)]
        dxdx     == [i \in 1..n |-> dxdx_at(jjj, i)]
    IN [diff |-> diff, mcd |-> mcd,
        cross_down |-> cross_down, cross_up |-> cross_up,
        n1 |-> n1, mm1 |-> mm1,
        cc1 |-> cc1, cc2 |-> cc2, cc3 |-> cc3,
        difl1 |-> difl1, difl2 |-> difl2, difl3 |-> difl3,
        aaa |-> aaa, bbb |-> bbb, ccc |-> ccc, jjj |-> jjj, dxdx |-> dxdx]

compute_cd_indicator(close) == cd_series(close).dxdx

\* ------------------------------------------------------------------------
\* get_best_CD_interval.py / get_best_MC_interval.py: the backtest evaluator
\*
\* Returns and averages are percentages in units of 1/RetScale percent,
\* success rates are percentages in hundredths.  A rounded value
\* round(x, 2) is kept in the same unit (a multiple of RetScale / 100).
\* ------------------------------------------------------------------------
MAX_SIGNALS_THRESHOLD_CD == 10

MAX_SIGNALS_THRESHOLD_MC == 7

RetScale == 10000

periods_CD == <<3, 5, 10, 15, 20, 25, 30, 40, 50, 60, 80, 100>>

periods_MC == [i \in 1..101 |-> i - 1]

Range(s) == {s[i] : i \in 1..Len(s)}

SetMax(S) == CHOOSE x \in S : \A y \in S : y <= x

SetMin(S) == CHOOSE x \in S : \A y \in S : x <= y

RECURSIVE SeqSum(_)
SeqSum(s) == IF s = <<>> THEN 0 ELSE s[1] + SeqSum(Tail(s))

\* data.index[signals_bool]: the positions of the True entries, ascending
signal_positions(signals) ==
    LET P == {i \in 1..Len(signals) : signals[i]}
    IN [k \in 1..Cardinality(P) |->
           CHOOSE p \in P : Cardinality({q \in P : q <= p}) = k]

\* variant of limit_signals: the oldest max_signals occurrences are kept
limit_signals_oldest(signal_dates, max_signals) ==
    IF Len(signal_dates) > max_signals
    THEN SubSeq(signal_dates, 1, max_signals)
    ELSE signal_dates

\* signal_dates[-max_signals:] when there are more than max_signals
limit_signals(signal_dates, max_signals) ==
    IF Len(signal_dates) > max_signals
    THEN SubSeq(signal_dates, Len(signal_dates) - max_signals + 1, Len(signal_dates))
    ELSE signal_dates

\* round(num / den, 2) in hundredths, den > 0, ties to even
Round2(num, den) ==
    LET a == num * 100
        f == a \div den
        r == a - f * den
    IN IF 2 * r > den THEN f + 1
       ELSE IF 2 * r < den THEN f
       ELSE IF f % 2 = 0 THEN f ELSE f + 1

\* variant of pct_return: the change is taken relative to the exit price
pct_return_exit_base(entry_price, exit_price) ==
    ((exit_price - entry_price) * 100 * RetScale) \div exit_price

\* (exit_price - entry_price) / entry_price * 100
pct_return(entry_price, exit_price) ==
    ((exit_price - entry_price) * 100 * RetScale) \div entry_price

\* round(float((exit_price - entry_price) / entry_price * 100), 2)
pct_return_mc(entry_price, exit_price) ==
    Round2((exit_price - entry_price) * 100, entry_price) * (RetScale \div 100)

return_of(kind, entry_price, exit_price) ==
    IF kind = "CD" THEN pct_return(entry_price, exit_price)
    ELSE pct_return_mc(entry_price, exit_price)

\* find_latest_mc_signal_before_cd: the position of the latest MC signal
\* strictly before the CD signal at cd_pos, None when there is none
find_latest_mc_signal_before_cd(mc_signals, cd_pos) ==
    LET previous_mc_signals == {j \in 1..Len(mc_signals) : mc_signals[j] /\ j < cd_pos}
    IN IF previous_mc_signals = {} THEN NaN ELSE Val(SetMax(previous_mc_signals))

\* the metrics returned by the except branch of evaluate_mc_at_top_price and
\* used by calculate_returns when there is no companion (dict.get defaults)
default_metrics ==
    [lookback_price_percentile |-> 500,
     is_near_lookback_high     |-> FALSE,
     price_decline_after_mc    |-> 0,
     is_followed_by_decline    |-> FALSE,
     is_local_maximum          |-> FALSE,
     criteria_met              |-> 0,
     is_at_top_price           |-> FALSE]

BoolToInt(b) == IF b THEN 1 ELSE 0

\* variant of at_top_price: all three criteria are required
at_top_price_all(criteria_met) == criteria_met >= 3

\* criteria_met >= 2: at least 2 out of 3 criteria
at_top_price(criteria_met) == criteria_met >= 2

\* variant of evaluate_mc_at_top_price: the range is that of the closes, and
\* the decline is measured at the close of the CD bar
evaluate_mc_at_top_price_by_close(data, mc_pos, mc_price, cd_pos) ==
    LET n            == Len(data.close)
        warmup_start == Min2(EMA_WARMUP_PERIOD, n - 1)
        lookback     == {j \in 1..n : warmup_start + 1 <= j /\ j <= cd_pos}
        lookback_max == SetMax({data.close[j] : j \in lookback})
        lookback_min == SetMin({data.close[j] : j \in lookback})
        lookback_range == lookback_max - lookback_min
        has_range    == lookback # {} /\ lookback_range > 0
        price_percentile ==
            IF has_range THEN ((mc_price - lookback_min) * 1000) \div lookback_range
            ELSE 500
        is_near_lookback_high ==
            has_range /\ (mc_price - lookback_min) * 10 >= 8 * lookback_range
        price_decline_pct ==
            IF cd_pos > mc_pos
            THEN ((mc_price - data.close[cd_pos]) * 100 * 100) \div mc_price
            ELSE 0
        is_followed_by_decline ==
            /\ cd_pos > mc_pos
            /\ (mc_price - data.close[cd_pos]) * 100 >= 5 * mc_price
        window_size  == Max2(3, Min2(10, n \div 20))
        window       == {j \in 1..n : /\ Max2(1, mc_pos - window_size) <= j
                                      /\ j <= Min2(n, mc_pos + window_size)}
        below        == {j \in window : mc_price >= data.high[j]}
        is_local_maximum ==
            /\ Cardinality(window) > 1
            /\ Cardinality(below) * 10 >= 7 * Cardinality(window)
        criteria_met == BoolToInt(is_near_lookback_high)
                        + BoolToInt(is_followed_by_decline)
                        + BoolToInt(is_local_maximum)
    IN [lookback_price_percentile |-> price_percentile,
        is_near_lookback_high     |-> is_near_lookback_high,
        price_decline_after_mc    |-> price_decline_pct,
        is_followed_by_decline    |-> is_followed_by_decline,
        is_local_maximum          |-> is_local_maximum,
        criteria_met              |-> criteria_met,
        is_at_top_price           |-> at_top_price(criteria_met)]

\* evaluate_mc_at_top_price(data, mc_date, mc_price, cd_date); data is the
\* record [high, low, close] of equally long series.  The percentile is in
\* thousandths, the decline in hundredths of a percent; the three threshold
\* tests are exact.
evaluate_mc_at_top_price(data, mc_pos, mc_price, cd_pos) ==
    LET n            == Len(data.close)
        warmup_start == Min2(EMA_WARMUP_PERIOD, n - 1)
        \* data.iloc[warmup_start:cd_idx+1]
        lookback     == {j \in 1..n : warmup_start + 1 <= j /\ j <= cd_pos}
        \* data.iloc[mc_idx:cd_idx+1]
        lookahead    == {j \in 1..n : mc_pos <= j /\ j <= cd_pos}
        lookback_max == SetMax({data.high[j] : j \in lookback})
        lookback_min == SetMin({data.low[j] : j \in lookback})
        lookback_range == lookback_max - lookback_min
        has_range    == lookback # {} /\ lookback_range > 0
        price_percentile ==
            IF has_range THEN ((mc_price - lookback_min) * 1000) \div lookback_range
            ELSE 500
        is_near_lookback_high ==
            has_range /\ (mc_price - lookback_min) * 10 >= 8 * lookback_range
        lookahead_min == SetMin({data.low[j] : j \in lookahead})
        price_decline_pct ==
            IF Cardinality(lookahead) > 1
            THEN ((mc_price - lookahead_min) * 100 * 100) \div mc_price
            ELSE 0
        is_followed_by_decline ==
            /\ Cardinality(lookahead) > 1
            /\ (mc_price - lookahead_min) * 100 >= 5 * mc_price
        window_size  == Max2(3, Min2(10, n \div 20))
        \* data.iloc[max(0, mc_idx - window_size):min(len(data), mc_idx + window_size + 1)]
        window       == {j \in 1..n : /\ Max2(1, mc_pos - window_size) <= j
                                      /\ j <= Min2(n, mc_pos + window_size)}
        below        == {j \in window : mc_price >= data.high[j]}
        is_local_maximum ==
            /\ Cardinality(window) > 1
            /\ Cardinality(below) * 10 >= 7 * Cardinality(window)
        criteria_met == BoolToInt(is_near_lookback_high)
                        + BoolToInt(is_followed_by_decline)
                        + BoolToInt(is_local_maximum)
    IN [lookback_price_percentile |-> price_percentile,
        is_near_lookback_high     |-> is_near_lookback_high,
        price_decline_after_mc    |-> price_decline_pct,
        is_followed_by_decline    |-> is_followed_by_decline,
        is_local_maximum          |-> is_local_maximum,
        criteria_met              |-> criteria_met,
        is_at_top_price           |-> at_top_price(criteria_met)]

\* the companion part of one calculate_returns row (CD evaluator only)
mc_info(data, mc_signals, pos) ==
    LET latest_mc_date == find_latest_mc_signal_before_cd(mc_signals, pos)
        mc_evaluation  == IF latest_mc_date # NaN
                          THEN evaluate_mc_at_top_price(data, latest_mc_date[1],
                                   data.close[latest_mc_date[1]], pos)
                          ELSE default_metrics
    IN [prev_mc_date    |-> latest_mc_date,
        mc_at_top_price |-> mc_evaluation.is_at_top_price,
        mc_criteria_met |-> mc_evaluation.criteria_met,
        mc_evaluation   |-> mc_evaluation]

no_mc_info ==
    [prev_mc_date |-> NaN, mc_at_top_price |-> FALSE, mc_criteria_met |-> 0,
     mc_evaluation |-> default_metrics]

\* one row of the DataFrame calculate_returns builds, for the occurrence at
\* position pos
returns_row(kind, data, mc_signals, pos, periods) ==
    [date |-> pos,
     ret  |-> [h \in Range(periods) |->
                  IF (pos - 1) + h < Len(data.close)
                  THEN Val(return_of(kind, data.close[pos], data.close[pos + h]))
                  ELSE NaN],
     mc   |-> IF kind = "CD" THEN mc_info(data, mc_signals, pos) ELSE no_mc_info]

RECURSIVE returns_rows_from(_, _, _, _, _, _, _)
returns_rows_from(kind, data, mc_signals, signal_dates, periods, k, acc) ==
    IF k > Len(signal_dates) THEN acc
    ELSE LET pos == signal_dates[k]
         IN returns_rows_from(kind, data, mc_signals, signal_dates, periods, k + 1,
                \* skip signals that are too close to the end of the data
                IF (pos - 1) + SetMax(Range(periods)) >= Len(data.close) THEN acc
                ELSE Append(acc, returns_row(kind, data, mc_signals, pos, periods)))

\* variant of calculate_returns: an occurrence near the end of the data is not
\* skipped and a horizon past the end records a 0 return
returns_row_zero_fill(kind, data, mc_signals, pos, periods) ==
    [date |-> pos,
     ret  |-> [h \in Range(periods) |->
                  IF (pos - 1) + h < Len(data.close)
                  THEN Val(return_of(kind, data.close[pos], data.close[pos + h]))
                  ELSE Val(0)],
     mc   |-> IF kind = "CD" THEN mc_info(data, mc_signals, pos) ELSE no_mc_info]

calculate_returns_zero_fill(kind, data, signals, mc_signals, periods, max_signals) ==
    LET signal_dates == limit_signals(signal_positions(signals), max_signals)
    IN [k \in 1..Len(signal_dates) |->
           returns_row_zero_fill(kind, data, mc_signals, signal_dates[k], periods)]

\* variant of calculate_returns: an occurrence near the end of the data is
\* not skipped and its horizons past the end stay undefined
calculate_returns_no_skip(kind, data, signals, mc_signals, periods, max_signals) ==
    LET signal_dates == limit_signals(signal_positions(signals), max_signals)
    IN [k \in 1..Len(signal_dates) |->
           returns_row(kind, data, mc_signals, signal_dates[k], periods)]

\* mc_signals is compute_mc_indicator(data), which the CD evaluator computes
\* inside calculate_returns
calculate_returns(kind, data, signals, mc_signals, periods, max_signals) ==
    returns_rows_from(kind, data, mc_signals,
        limit_signals(signal_positions(signals), max_signals), periods, 1, <<>>)

\* returns_df[return_col].dropna().tolist()
RECURSIVE dropna_column(_, _, _, _)
dropna_column(returns_df, h, k, acc) ==
    IF k > Len(returns_df) THEN acc
    ELSE dropna_column(returns_df, h, k + 1,
            IF returns_df[k].ret[h] = NaN THEN acc
            ELSE Append(acc, returns_df[k].ret[h][1]))

count_positive(s) == Cardinality({i \in 1..Len(s) : s[i] > 0})

count_negative(s) == Cardinality({i \in 1..Len(s) : s[i] < 0})

\* variant of success_rate_cd: sum() in place of mean()
success_rate_cd_sum(individual_returns) ==
    count_positive(individual_returns) * 100 * 100

\* (pd.Series(individual_returns) > 0).mean() * 100
success_rate_cd(individual_returns) ==
    (count_positive(individual_returns) * 100 * 100) \div Len(individual_returns)

\* round(float((period_returns < 0).mean() * 100), 2)
success_rate_mc(period_returns) ==
    Round2(count_negative(period_returns) * 100, Len(period_returns))

\* pd.Series(individual_returns).mean()
avg_return_cd(individual_returns) ==
    SeqSum(individual_returns) \div Len(individual_returns)

\* round(float(period_returns.mean()), 2)
avg_return_mc(period_returns) ==
    Round2(SeqSum(period_returns), RetScale * Len(period_returns)) * (RetScale \div 100)

period_stats(kind, returns_df, h) ==
    LET individual_returns == dropna_column(returns_df, h, 1, <<>>)
        test_count == Len(individual_returns)
    IN IF test_count > 0
       THEN [test_count   |-> test_count,
             success_rate |-> IF kind = "CD" THEN success_rate_cd(individual_returns)
                              ELSE success_rate_mc(individual_returns),
             avg_return   |-> IF kind = "CD" THEN avg_return_cd(individual_returns)
                              ELSE avg_return_mc(individual_returns),
             returns      |-> individual_returns]
       ELSE [test_count |-> 0, success_rate |-> 0, avg_return |-> 0, returns |-> <<>>]

zero_stats == [test_count |-> 0, success_rate |-> 0, avg_return |-> 0, returns |-> <<>>]

\* variant in which both evaluators use the CD horizons
periods_of_cd(kind) ==
    periods_CD

periods_of(kind) ==
    IF kind = "CD" THEN periods_CD ELSE periods_MC

max_signals_of(kind) ==
    IF kind = "CD" THEN MAX_SIGNALS_THRESHOLD_CD ELSE MAX_SIGNALS_THRESHOLD_MC

\* evaluate_interval from the point where data_frame and the signal series
\* are known (the signal series is the indicator's output on data_frame).
\* None is NaN, a record r is Val(r).
evaluate_interval(kind, data, signals, mc_signals) ==
    IF Len(data.close) = 0 THEN NaN
    ELSE
    LET periods      == periods_of(kind)
        H            == Range(periods)
        sig          == signal_positions(signals)
        signal_count == Len(sig)
        latest_signal_date == IF signal_count > 0 THEN Val(sig[Len(sig)]) ELSE NaN
        returns_df   == IF signal_count = 0 THEN <<>>
                        ELSE calculate_returns(kind, data, signals, mc_signals,
                                               periods, max_signals_of(kind))
    IN IF signal_count = 0 \/ returns_df = <<>>
       THEN Val([signal_count   |-> signal_count,
                 latest_signal  |-> latest_signal_date,
                 current_period |-> 0,
                 max_return     |-> 0,
                 min_return     |-> 0,
                 stats          |-> [h \in H |-> zero_stats],
                 mc_signals_before_cd  |-> 0,
                 mc_at_top_price_count |-> 0,
                 returns_df     |-> <<>>])
       ELSE LET stats == [h \in H |-> period_stats(kind, returns_df, h)]
                all_returns == UNION {Range(stats[h].returns) : h \in H}
            IN Val([signal_count   |-> signal_count,
                    latest_signal  |-> latest_signal_date,
                    current_period |-> (Len(data.close) - 1) - (latest_signal_date[1] - 1),
                    max_return     |-> IF all_returns # {} THEN SetMax(all_returns) ELSE 0,
                    min_return     |-> IF all_returns # {} THEN SetMin(all_returns) ELSE 0,
                    stats          |-> stats,
                    mc_signals_before_cd  |->
                        Cardinality({k \in 1..Len(returns_df) :
                                        returns_df[k].mc.prev_mc_date # NaN}),
                    mc_at_top_price_count |->
                        Cardinality({k \in 1..Len(returns_df) :
                                        returns_df[k].mc.mc_at_top_price}),
                    returns_df     |-> returns_df])

\* ------------------------------------------------------------------------
\* utils.py / get_resonance_signal.py / get_resonance_signal_MC.py
\*
\* A signal_date is the integer date * DaySlots + slot, the slot being the
\* time of day of the bar; a detail row is a record [ticker, interval,
\* score, signal_date, signal_price, breakthrough_date], breakthrough_date 0
\* standing for None.  Scores are in hundredths, prices in cents.
\* ------------------------------------------------------------------------
DaySlots == 2

\* Timestamp.date()
to_date(signal_date) == signal_date \div DaySlots

required_intervals(family) ==
    IF family = "1234" THEN {"1h", "2h", "3h", "4h"}
                       ELSE {"5m", "10m", "15m", "30m"}

\* intervals = ['1h', '2h', '3h', '4h'] / ['5m', '10m', '15m', '30m']
intervals_of(family) ==
    IF family = "1234" THEN <<"1h", "2h", "3h", "4h">>
                       ELSE <<"5m", "10m", "15m", "30m">>

interval_weights(interval) ==
    CASE interval = "5m"  -> 2
      [] interval = "10m" -> 3
      [] interval = "15m" -> 4
      [] interval = "30m" -> 5
      [] interval = "1h"  -> 6
      [] interval = "2h"  -> 7
      [] interval = "3h"  -> 8
      [] interval = "4h"  -> 9
      [] interval = "1d"  -> 10
      [] OTHER            -> 0

\* rank of an interval label in string order
interval_order(interval) ==
    CASE interval = "10m" -> 1
      [] interval = "15m" -> 2
      [] interval = "1d"  -> 3
      [] interval = "1h"  -> 4
      [] interval = "2h"  -> 5
      [] interval = "30m" -> 6
      [] interval = "3h"  -> 7
      [] interval = "4h"  -> 8
      [] interval = "5m"  -> 9
      [] OTHER            -> 0

\* int(s.replace('h', '')) / int(s.replace('m', ''))
interval_number(interval) ==
    CASE interval = "5m"  -> 5
      [] interval = "10m" -> 10
      [] interval = "15m" -> 15
      [] interval = "30m" -> 30
      [] interval = "1h"  -> 1
      [] interval = "2h"  -> 2
      [] interval = "3h"  -> 3
      [] interval = "4h"  -> 4
      [] OTHER            -> 0

\* the rows of s at the positions in idx, in order (boolean-mask selection)
rows_where(s, idx) ==
    [k \in 1..Cardinality(idx) |->
        s[CHOOSE i \in idx : Cardinality({j \in idx : j < i}) = k - 1]]

\* Series.unique(): the distinct values in order of first appearance
unique(s) ==
    LET firsts == {i \in 1..Len(s) : \A j \in 1..(i - 1) : s[j] # s[i]}
    IN rows_where(s, firsts)

\* s[::-1]
reversed(s) == [i \in 1..Len(s) |-> s[Len(s) + 1 - i]]

\* sort_values(by=['signal_date', 'breakthrough_date', 'score', 'interval'],
\* ascending=[False, False, False, False]): a sorts strictly before b
detail_before(a, b) ==
    \/ a.signal_date > b.signal_date
    \/ /\ a.signal_date = b.signal_date
       /\ \/ a.breakthrough_date > b.breakthrough_date
          \/ /\ a.breakthrough_date = b.breakthrough_date
             /\ \/ a.score > b.score
                \/ /\ a.score = b.score
                   /\ interval_order(a.interval) > interval_order(b.interval)

\* the sort is stable: row i goes after every row that sorts before it and
\* after the earlier rows that tie with it
sort_details(rows) ==
    LET n == Len(rows)
        rank(i) == Cardinality({j \in 1..n :
                       \/ detail_before(rows[j], rows[i])
                       \/ j < i /\ ~detail_before(rows[i], rows[j])})
    IN [k \in 1..n |-> rows[CHOOSE i \in 1..n : rank(i) = k - 1]]

\* save_results: nothing is written for an empty result list
no_file == [exists |-> FALSE, rows |-> <<>>]

save_results(results, output_file) ==
    IF results = <<>> THEN output_file
    ELSE [exists |-> TRUE, rows |-> sort_details(results)]

\* the tickers of the model in string order
Tickers == <<"ABC", "MNO", "XYZ">>

ticker_order(ticker) == CHOOSE i \in 1..Len(Tickers) : Tickers[i] = ticker

\* variant of resonates: two distinct intervals are enough
resonates_two(unique_intervals, required) ==
    Cardinality(unique_intervals \cap required) >= 2

\* len(unique_intervals.intersection(required_intervals)) >= 3
resonates(unique_intervals, required) ==
    Cardinality(unique_intervals \cap required) >= 3

\* variant of already_processed: the combination is never looked up
never_processed(combination, processed_combinations) == FALSE

\* combination in processed_combinations
already_processed(combination, processed_combinations) ==
    combination \in processed_combinations

\* sorted([int(s.replace('h', '')) for s in resonating_intervals_set])
sorted_numbers(S) ==
    [k \in 1..Cardinality(S) |->
        CHOOSE x \in S : Cardinality({y \in S : y < x}) = k - 1]

\* the candidate appended for a ticker that resonates in a window
candidate_of(kind, required, ticker, ticker_data) ==
    LET unique_intervals == {ticker_data[j].interval : j \in 1..Len(ticker_data)}
        max_signal_date  == SetMax({ticker_data[j].signal_date : j \in 1..Len(ticker_data)})
        idxmax == SetMin({j \in 1..Len(ticker_data) :
                              ticker_data[j].signal_date = max_signal_date})
        resonating == unique_intervals \cap required
    IN IF kind = "CD"
       THEN [ticker |-> ticker, date |-> to_date(max_signal_date),
             score |-> Cardinality(resonating),
             signal_price |-> ticker_data[idxmax].signal_price]
       ELSE [ticker |-> ticker, date |-> to_date(max_signal_date),
             intervals |-> sorted_numbers({interval_number(s) : s \in resonating}),
             signal_price |-> ticker_data[idxmax].signal_price]

\* for ticker in window_data['ticker'].unique(): ...
RECURSIVE scan_tickers(_, _, _, _, _)
scan_tickers(kind, required, window_data, tickers, acc) ==
    IF tickers = <<>> THEN acc
    ELSE LET ticker == Head(tickers)
             ticker_data == rows_where(window_data,
                 {j \in 1..Len(window_data) : window_data[j].ticker = ticker})
             unique_intervals == {ticker_data[j].interval : j \in 1..Len(ticker_data)}
             cand == candidate_of(kind, required, ticker, ticker_data)
             combination == <<ticker, cand.date>>
             acc2 == IF /\ resonates(unique_intervals, required)
                        /\ ~already_processed(combination, acc.processed_combinations)
                     THEN [breakout_candidates |-> Append(acc.breakout_candidates, cand),
                           processed_combinations |->
                               acc.processed_combinations \cup {combination}]
                     ELSE acc
         IN scan_tickers(kind, required, window_data, Tail(tickers), acc2)

\* for i in range(len(unique_dates)): ...
\* variant of window_data: the rows dated within two calendar days of date
window_data_by_calendar(df, unique_dates, i) ==
    rows_where(df, {j \in 1..Len(df) :
        /\ to_date(df[j].signal_date) >= unique_dates[i]
        /\ to_date(df[j].signal_date) <= unique_dates[i] + 2})

\* window_data of iteration i: the rows dated from unique_dates[i] to
\* window_end = unique_dates[min(i + 2, len(unique_dates) - 1)]
window_data(df, unique_dates, i) ==
    LET date == unique_dates[i]
        window_end == unique_dates[Min2(i + 2, Len(unique_dates))]
    IN rows_where(df, {j \in 1..Len(df) : /\ to_date(df[j].signal_date) >= date
                                          /\ to_date(df[j].signal_date) <= window_end})

RECURSIVE scan_windows(_, _, _, _, _, _)
scan_windows(kind, required, df, unique_dates, i, acc) ==
    IF i > Len(unique_dates) THEN acc
    ELSE LET window == window_data(df, unique_dates, i)
             tickers == unique([j \in 1..Len(window) |-> window[j].ticker])
         IN scan_windows(kind, required, df, unique_dates, i + 1,
                scan_tickers(kind, required, window, tickers, acc))

\* the rows of the file in the required intervals
required_rows(family, rows) ==
    rows_where(rows, {j \in 1..Len(rows) : rows[j].interval \in required_intervals(family)})

\* unique_dates = df['date'].unique()[::-1]
unique_dates_of(df) ==
    reversed(unique([j \in 1..Len(df) |-> to_date(df[j].signal_date)]))

\* the candidate list built by the window loop over the rows of the file
breakout_candidates(kind, family, rows) ==
    LET df == required_rows(family, rows)
    IN scan_windows(kind, required_intervals(family), df, unique_dates_of(df), 1,
           [breakout_candidates |-> <<>>, processed_combinations |-> {}]).breakout_candidates

\* sort_values(by=['date', 'ticker'], ascending=[False, True]), stable
candidate_before(a, b) ==
    \/ a.date > b.date
    \/ a.date = b.date /\ ticker_order(a.ticker) < ticker_order(b.ticker)

sort_candidates(cands) ==
    LET n == Len(cands)
        rank(i) == Cardinality({j \in 1..n :
                       \/ candidate_before(cands[j], cands[i])
                       \/ j < i /\ ~candidate_before(cands[i], cands[j])})
    IN [k \in 1..n |-> cands[CHOOSE i \in 1..n : rank(i) = k - 1]]

\* the reference bars of a ticker: <<>> when the ticker, or its reference
\* interval, is missing from all_ticker_data or the frame is empty
reference_bars(all_ticker_data, ticker) ==
    IF ticker \in DOMAIN all_ticker_data THEN all_ticker_data[ticker] ELSE <<>>

\* nx = close.ewm(span=24).mean() > close.ewm(span=89).mean(), re-indexed by
\* date and turned into a dict: the last bar of a date gives its value
nx_dict(bars) ==
    LET close == [i \in 1..Len(bars) |-> bars[i].close]
        short_close == ewm(close, 24)
        long_close  == ewm(close, 89)
        dates == {bars[i].date : i \in 1..Len(bars)}
        last(d) == SetMax({i \in 1..Len(bars) : bars[i].date = d})
    IN [d \in dates |-> short_close[last(d)] > long_close[last(d)]]

\* the possible outcomes of identify_1234 / identify_5230 (kind "CD") and of
\* identify_mc_1234 / identify_mc_5230 (kind "MC")
identify(kind, family, file, all_ticker_data) ==
    IF ~file.exists
    THEN {[status |-> "returned", type |-> IF kind = "CD" THEN "list" ELSE "frame",
           rows |-> <<>>]}
    ELSE
    LET df_breakout_candidates == sort_candidates(breakout_candidates(kind, family, file.rows))
        n == Len(df_breakout_candidates)
        with_current == [k \in 1..n |->
            LET c == df_breakout_candidates[k]
                bars == reference_bars(all_ticker_data, c.ticker)
            IN IF kind = "CD" THEN c
               ELSE [ticker |-> c.ticker, date |-> c.date, intervals |-> c.intervals,
                     signal_price |-> c.signal_price,
                     current_price |-> IF bars = <<>> THEN NaN
                                       ELSE Val(bars[Len(bars)].close),
                     current_time |-> IF bars = <<>> THEN NaN
                                      ELSE Val(bars[Len(bars)].date)]]
        dict_nx == [t \in {df_breakout_candidates[k].ticker : k \in 1..n} \cap
                          {t \in DOMAIN all_ticker_data : all_ticker_data[t] # <<>>} |->
                       nx_dict(all_ticker_data[t])]
        kept == rows_where(with_current,
                    {k \in 1..n : with_current[k].ticker \in DOMAIN dict_nx})
        raised == [status |-> "raised", type |-> "none", rows |-> <<>>]
        frame(rows) == [status |-> "returned", type |-> "frame", rows |-> rows]
    IN IF kind = "MC" /\ n = 0
       THEN \* assigning the two current_* columns from a frame without
            \* columns raises or is a no-op, depending on the pandas release
            {raised, frame(<<>>)}
       ELSE IF kept = <<>> THEN {frame(<<>>)}
       ELSE IF \E k \in 1..Len(kept) : kept[k].date \notin DOMAIN dict_nx[kept[k].ticker]
       THEN {raised}
       ELSE {frame([k \in 1..Len(kept) |->
                [candidate |-> kept[k],
                 nx |-> dict_nx[kept[k].ticker][kept[k].date]]])}

\* ------------------------------------------------------------------------
\* data_loader.py: the resampler
\*
\* A bar is a record [date, time, Open, High, Low, Close, Volume]; time is
\* in minutes since midnight (0 for a daily bar).  The bars of a resampled
\* frame carry Open, High, Low and Close as NaN or Val(v).
\* ------------------------------------------------------------------------
\* between_time("09:30", "16:00")
SessionOpen == 570

SessionClose == 960

\* offset="9h30min" from origin="start_day"
ResampleOffset == 570

\* rule=new_interval.replace('h', 'H') / new_interval.replace('m', 'T')
interval_minutes(new_interval) ==
    CASE new_interval = "5m"  -> 5
      [] new_interval = "10m" -> 10
      [] new_interval = "15m" -> 15
      [] new_interval = "30m" -> 30
      [] new_interval = "1h"  -> 60
      [] new_interval = "2h"  -> 120
      [] new_interval = "3h"  -> 180
      [] new_interval = "4h"  -> 240

\* a is stamped strictly before b
stamp_before(a, b) == a.date < b.date \/ (a.date = b.date /\ a.time < b.time)

\* sort_index(): stable sort by timestamp
sort_index(df) ==
    LET n == Len(df)
        rank(i) == Cardinality({j \in 1..n :
                       \/ stamp_before(df[j], df[i])
                       \/ j < i /\ ~stamp_before(df[i], df[j])})
    IN [k \in 1..n |-> df[CHOOSE i \in 1..n : rank(i) = k - 1]]

\* variant of between_time that keeps the bars outside the session
between_time_all_day(df, start_time, end_time) ==
    df

between_time(df, start_time, end_time) ==
    rows_where(df, {i \in 1..Len(df) : df[i].time >= start_time /\ df[i].time <= end_time})

\* "Open": "first"
agg_first(members) == members[1].Open

\* "High": "max"
agg_max(members) == SetMax({members[i].High : i \in 1..Len(members)})

\* "Low": "min"
agg_min(members) == SetMin({members[i].Low : i \in 1..Len(members)})

\* variant of agg_last: the close of the first bar of the bin
agg_last_first(members) == members[1].Close

\* "Close": "last"
agg_last(members) == members[Len(members)].Close

\* "Volume": "sum"
agg_sum(members) == SeqSum([i \in 1..Len(members) |-> members[i].Volume])

\* .agg({...}) over the bars of one bin: an empty bin has NaN prices and
\* volume 0
agg_bin(date, time, members) ==
    IF members = <<>>
    THEN [date |-> date, time |-> time, Open |-> NaN, High |-> NaN, Low |-> NaN,
          Close |-> NaN, Volume |-> 0]
    ELSE [date |-> date, time |-> time,
          Open |-> Val(agg_first(members)), High |-> Val(agg_max(members)),
          Low |-> Val(agg_min(members)), Close |-> Val(agg_last(members)),
          Volume |-> agg_sum(members)]

\* resample_xh: the bins [09:30 + k*T, 09:30 + (k+1)*T) of one date, from
\* the bin of its first bar to the bin of its last bar
resample_xh(daily_df, new_interval) ==
    LET T == interval_minutes(new_interval)
        bin(i) == (daily_df[i].time - ResampleOffset) \div T
        bins == {bin(i) : i \in 1..Len(daily_df)}
        first_bin == SetMin(bins)
    IN [k \in 1..(SetMax(bins) - first_bin + 1) |->
           agg_bin(daily_df[1].date, ResampleOffset + (first_bin + k - 1) * T,
                   rows_where(daily_df,
                       {i \in 1..Len(daily_df) : bin(i) = first_bin + k - 1}))]

\* dropna(subset=["Open","High","Low","Close"], how="any")
dropna_ohlc(bars) ==
    rows_where(bars, {i \in 1..Len(bars) :
        ~(IsNaN(bars[i].Open) \/ IsNaN(bars[i].High)
          \/ IsNaN(bars[i].Low) \/ IsNaN(bars[i].Close))})

\* pd.concat over the dates of the frame in ascending order
RECURSIVE concat_days(_, _, _)
concat_days(df, dates, new_interval) ==
    IF dates = <<>> THEN <<>>
    ELSE dropna_ohlc(resample_xh(
             rows_where(df, {i \in 1..Len(df) : df[i].date = Head(dates)}),
             new_interval))
         \o concat_days(df, Tail(dates), new_interval)

\* the body shared by transform_1h_data and transform_5m_data; pd.concat
\* raises when no date is left after the session filter
transform_data(df, new_interval) ==
    IF df = <<>> THEN [status |-> "returned", rows |-> <<>>]
    ELSE LET session == between_time(sort_index(df), SessionOpen, SessionClose)
             dates == sorted_numbers({session[i].date : i \in 1..Len(session)})
         IN IF dates = <<>> THEN [status |-> "raised", rows |-> <<>>]
            ELSE [status |-> "returned",
                  rows |-> sort_index(concat_days(session, dates, new_interval))]

transform_1h_data(df_1h, new_interval) == transform_data(df_1h, new_interval)

transform_5m_data(df_5m, new_interval) == transform_data(df_5m, new_interval)

\* the bars of a resampled frame as a frame that can be resampled again
\* (no NaN price is left after dropna)
as_frame(rows) ==
    [k \in 1..Len(rows) |->
        [date |-> rows[k].date, time |-> rows[k].time,
         Open |-> rows[k].Open[1], High |-> rows[k].High[1],
         Low |-> rows[k].Low[1], Close |-> rows[k].Close[1],
         Volume |-> rows[k].Volume]]

\* `try: ... transform_..._data(...) except Exception: pd.DataFrame()`
frame_or_empty(out) ==
    IF out.status = "raised" THEN <<>> ELSE as_frame(out.rows)

\* variant of download_data: every interval is derived from the frame of
\* the interval before it
download_data_chained(family, history) ==
    LET intervals == intervals_of(family)
        base == frame_or_empty(transform_data(history, intervals[1]))
        second == frame_or_empty(transform_data(base, intervals[2]))
        third == frame_or_empty(transform_data(second, intervals[3]))
    IN [interval \in Range(intervals) |->
           CASE interval = intervals[1] -> base
             [] interval = intervals[2] -> second
             [] interval = intervals[3] -> third
             [] OTHER -> frame_or_empty(transform_data(third, interval))]

\* the loop of download_data_1234 / download_data_5230 over period_map: the
\* base entry ('1h' / '5m') is overwritten by its own resampled form in the
\* first pass, and each later pass resamples the base entry as it then is
download_data(family, history) ==
    LET intervals == intervals_of(family)
        base == frame_or_empty(transform_data(history, intervals[1]))
    IN [interval \in Range(intervals) |->
           IF interval = intervals[1] THEN base
           ELSE frame_or_empty(transform_data(base, interval))]

\* the week of a date: weeks end on Sunday, dates 1..7 are Monday..Sunday
week_of(date) == (date + 6) \div 7

\* daily_data.resample('W').agg({...}) in evaluate_interval: one bar per
\* week from the first to the last week with data, stamped on its Sunday
resample_weekly(daily_data) ==
    IF daily_data = <<>> THEN [status |-> "none", rows |-> <<>>]
    ELSE LET weeks == {week_of(daily_data[i].date) : i \in 1..Len(daily_data)}
             first_week == SetMin(weeks)
         IN [status |-> "returned",
             rows |-> [k \in 1..(SetMax(weeks) - first_week + 1) |->
                 agg_bin(7 * (first_week + k - 1), 0,
                     rows_where(daily_data,
                         {i \in 1..Len(daily_data) :
                             week_of(daily_data[i].date) = first_week + k - 1}))]]

\* ------------------------------------------------------------------------
\* State
\* ------------------------------------------------------------------------
VARIABLES
    \* SpecIndicator: the Close column handed to the engine, the CD series
    \* it returned, whether the call has been made, and the intermediate
    \* series of the call
    ind_close, ind_cd, ind_pc, ind_locals,
    \* SpecEval: which evaluator runs (CD or MC), its data_frame, the signal
    \* series of that kind, the MC series the CD evaluator looks companions
    \* up in, the returned record (None before the call) and the call state
    ev_kind, ev_data, ev_signals, ev_mc_signals, ev_result, ev_pc,
    \* SpecCompanion: the data_frame, the positions of the companion MC
    \* signal and of the CD occurrence, the returned metrics, the call state
    cp_data, cp_mc_pos, cp_cd_pos, cp_metrics, cp_pc,
    \* SpecResonance: CD or MC detector, interval family, the detail file,
    \* the pre-downloaded reference bars, the candidate list built by the
    \* window loop, the outcome of the call, the call state
    rs_kind, rs_family, rs_file, rs_all_ticker_data, rs_emitted, rs_out, rs_pc,
    \* SpecResample: which resampling is called ("1h", "5m" or "1w"), the
    \* base frame, the target interval, the outcome, the call state
    tf_op, tf_df, tf_interval, tf_out, tf_pc,
    \* the dict download_data_1234 / download_data_5230 returns
    tf_data_ticker,
    \* SpecAnalyze: the stock list, what the processing of each ticker does,
    \* the position of the main process, the offset of the batch, the batch,
    \* the batch positions not yet taken by a worker and those in a worker,
    \* the results map has gathered, the aggregated lists (with the
    \* exception that ended the run), the resonance stage, the detail files,
    \* the saved summaries, and the record of what each identify call read
    stock_list, az_behaviour, az_pc, az_i, batch, az_pending, az_running,
    batch_results, az_acc, az_stage, az_files, az_summaries, az_log,
    az_order,
    \* SpecStockList: the lines of the stock list file, the rows of the
    \* stock_lists table, the results of the successive loads of the file, and
    \* the result of the last direct get_stock_list query
    sl_file, sl_db, sl_loads, sl_direct,
    \* SpecStockVersions: the direct calls of save_stock_list so far
    sl_saves,
    \* SpecAcquire: the evaluator (CD or MC) run by process_ticker_all over
    \* the intervals, the pre-fetched data map of the ticker, the position
    \* in the interval list, the records collected so far, and the calls
    \* made to the data source
    pt_kind, pt_data, pt_i, pt_results, pt_fetches,
    \* SpecUnits: the signal kind and interval family of the process_ticker
    \* function running, its data_ticker map, the position in the interval
    \* list, the results list, and the intervals whose computation raised
    pu_kind, pu_family, pu_data, pu_i, pu_results, pu_raised

indVars == <<ind_close, ind_cd, ind_pc, ind_locals>>

evVars == <<ev_kind, ev_data, ev_signals, ev_mc_signals, ev_result, ev_pc>>

cpVars == <<cp_data, cp_mc_pos, cp_cd_pos, cp_metrics, cp_pc>>

rsVars == <<rs_kind, rs_family, rs_file, rs_all_ticker_data, rs_emitted,
            rs_out, rs_pc>>

tfVars == <<tf_op, tf_df, tf_interval, tf_out, tf_pc, tf_data_ticker>>

azVars == <<stock_list, az_behaviour, az_pc, az_i, batch, az_pending, az_running,
            batch_results, az_acc, az_stage, az_files, az_summaries, az_log,
            az_order>>

slVars == <<sl_file, sl_db, sl_loads, sl_direct, sl_saves>>

ptVars == <<pt_kind, pt_data, pt_i, pt_results, pt_fetches>>

puVars == <<pu_kind, pu_family, pu_data, pu_i, pu_results, pu_raised>>

vars == <<indVars, evVars, cpVars, rsVars, tfVars, azVars, slVars, ptVars,
          puVars>>

\* ------------------------------------------------------------------------
\* SpecIndicator: compute_cd_indicator applied to the close series of up to
\* MaxBars bars that open with a fall from 3 to 2 and then take any closes
\* of 1..MaxPrice (the series with a CD occurrence within MaxBars bars are
\* of that kind).
\* ------------------------------------------------------------------------
PriceSet == {p * Scale : p \in 1..MaxPrice}

LeadIn == <<3 * Scale, 2 * Scale>>

CloseSeries ==
    {SubSeq(LeadIn, 1, k) : k \in 0..Len(LeadIn)}
    \cup {LeadIn \o t : t \in SeqsUpTo(PriceSet, MaxBars - Len(LeadIn))}

IndIdle ==
    ind_close = <<>> /\ ind_cd = <<>> /\ ind_pc = "off" /\ ind_locals = cd_series(<<>>)

IndInit ==
    /\ ind_close \in CloseSeries
    /\ ind_cd = <<>>
    /\ ind_locals = cd_series(<<>>)
    /\ ind_pc = "call"

ComputeCD ==
    /\ ind_pc = "call"
    /\ ind_cd' = compute_cd_indicator(ind_close)
    /\ ind_locals' = cd_series(ind_close)
    /\ ind_pc' = "returned"
    /\ UNCHANGED ind_close

EvIdle ==
    /\ ev_kind = "CD"
    /\ ev_data = [high |-> <<>>, low |-> <<>>, close |-> <<>>]
    /\ ev_signals = <<>>
    /\ ev_mc_signals = <<>>
    /\ ev_result = NaN
    /\ ev_pc = "off"

CpIdle ==
    /\ cp_data = [high |-> <<>>, low |-> <<>>, close |-> <<>>]
    /\ cp_mc_pos = 0
    /\ cp_cd_pos = 0
    /\ cp_metrics = default_metrics
    /\ cp_pc = "off"

RsIdle ==
    /\ rs_kind = "CD"
    /\ rs_family = "1234"
    /\ rs_file = no_file
    /\ rs_all_ticker_data = <<>>
    /\ rs_emitted = <<>>
    /\ rs_out = [status |-> "none", type |-> "none", rows |-> <<>>]
    /\ rs_pc = "off"

TfIdle ==
    /\ tf_op = "1h"
    /\ tf_df = <<>>
    /\ tf_interval = "1h"
    /\ tf_out = [status |-> "none", rows |-> <<>>]
    /\ tf_pc = "off"
    /\ tf_data_ticker = <<>>

empty_acc ==
    [results_1234 |-> <<>>, results_5230 |-> <<>>, mc_results_1234 |-> <<>>,
     mc_results_5230 |-> <<>>, cd_eval_results |-> <<>>, mc_eval_results |-> <<>>,
     all_ticker_data |-> <<>>, failed_tickers |-> <<>>, error |-> "none"]

AzIdle ==
    /\ stock_list = <<>>
    /\ az_behaviour = <<>>
    /\ az_pc = "off"
    /\ az_i = 0
    /\ batch = <<>>
    /\ az_pending = {}
    /\ az_running = {}
    /\ batch_results = <<>>
    /\ az_acc = empty_acc
    /\ az_stage = 1
    /\ az_files = <<>>
    /\ az_summaries = <<>>
    /\ az_log = <<>>
    /\ az_order = <<>>

SlIdle ==
    /\ sl_file = <<>> /\ sl_db = <<>> /\ sl_loads = <<>> /\ sl_direct = <<>>
    /\ sl_saves = <<>>

PuIdle ==
    /\ pu_kind = "none"
    /\ pu_family = "none"
    /\ pu_data = <<>>
    /\ pu_i = 0
    /\ pu_results = <<>>
    /\ pu_raised = {}

PtIdle ==
    /\ pt_kind = "none"
    /\ pt_data = <<>>
    /\ pt_i = 0
    /\ pt_results = <<>>
    /\ pt_fetches = <<>>

InitIndicator == IndInit /\ EvIdle /\ CpIdle /\ RsIdle /\ TfIdle /\ AzIdle /\ SlIdle /\ PtIdle /\ PuIdle

NextIndicator ==
    ComputeCD /\ UNCHANGED <<evVars, cpVars, rsVars, tfVars, azVars, slVars, ptVars, puVars>>

SpecIndicator == InitIndicator /\ [][NextIndicator]_vars

\* C2: for every bar series, the CD value at every index below the warm-up
\* length (EMA_WARMUP_PERIOD bars) is False; a series shorter than the
\* warm-up length therefore yields an all-False CD series.
C2_FalseBelowWarmup ==
    ind_pc = "returned" =>
        \A p \in 1..Len(ind_cd) : (p - 1 < EMA_WARMUP_PERIOD) => ind_cd[p] = FALSE

\* ------------------------------------------------------------------------
\* SpecEval: evaluate_interval (CD and MC) on bounded inputs.
\*
\* A data_frame is a series of n bars whose closes repeat a 3-bar pattern
\* drawn from one palette and starting at its lowest price, with High =
\* Close + EvalSpread and Low = Close - EvalSpread.  The signal series has
\* occurrences at some of the early indices 1, 3, 5 and at the last t
\* odd-spaced bars of the series, t around the caps; like the indicator's
\* output it is never True at index 0 nor on two consecutive bars.  n ranges below, at and above max(periods) so that occurrences
\* are evaluated, skipped and cut off by the cap.
\* ------------------------------------------------------------------------
PricePalettes == {{90, 100, 110}, {24999, 25000}}

EvalPatterns ==
    UNION {{pat \in [1..3 -> pal] : pat[1] = SetMin(pal)} : pal \in PricePalettes}

EvalLens == {0, 5, 100} \cup {100 + EvalSlack - k : k \in {0, 2, 4}}

EarlyPositions == {2, 4, 6}

TailCounts ==
    {0, 1, MAX_SIGNALS_THRESHOLD_MC - 2, MAX_SIGNALS_THRESHOLD_MC,
     MAX_SIGNALS_THRESHOLD_CD - 2, MAX_SIGNALS_THRESHOLD_CD}

EvalSpread == 5

pattern_series(pat, n) == [j \in 1..n |-> pat[((j - 1) % 3) + 1]]

bars_of(close, spread) ==
    [high  |-> [j \in 1..Len(close) |-> close[j] + spread],
     low   |-> [j \in 1..Len(close) |-> close[j] - spread],
     close |-> close]

\* position j is one of the last t odd-spaced bars n, n - 2, ... (beyond the
\* early positions)
in_tail(n, t, j) == j >= 8 /\ (n - j) % 2 = 0 /\ (n - j) \div 2 <= t - 1

signal_series(n, early, t) ==
    [j \in 1..n |-> j \in early \/ in_tail(n, t, j)]

EvInit ==
    \E n \in EvalLens, pat \in EvalPatterns, early \in SUBSET EarlyPositions,
       t \in TailCounts, kind \in {"CD", "MC"}, mc \in {{}, {3}} :
        /\ kind = "MC" => mc = {}
        /\ ev_kind = kind
        /\ ev_data = bars_of(pattern_series(pat, n), EvalSpread)
        /\ ev_signals = signal_series(n, early, t)
        /\ ev_mc_signals = [j \in 1..n |-> j \in mc]
        /\ ev_result = NaN
        /\ ev_pc = "call"

\* get_best_CD_interval.evaluate_interval
EvaluateCD ==
    /\ ev_pc = "call"
    /\ ev_kind = "CD"
    /\ ev_result' = evaluate_interval("CD", ev_data, ev_signals, ev_mc_signals)
    /\ ev_pc' = "returned"
    /\ UNCHANGED <<ev_kind, ev_data, ev_signals, ev_mc_signals>>

\* get_best_MC_interval.evaluate_interval
EvaluateMC ==
    /\ ev_pc = "call"
    /\ ev_kind = "MC"
    /\ ev_result' = evaluate_interval("MC", ev_data, ev_signals, ev_mc_signals)
    /\ ev_pc' = "returned"
    /\ UNCHANGED <<ev_kind, ev_data, ev_signals, ev_mc_signals>>

InitEval == EvInit /\ IndIdle /\ CpIdle /\ RsIdle /\ TfIdle /\ AzIdle /\ SlIdle /\ PtIdle /\ PuIdle

NextEval ==
    (EvaluateCD \/ EvaluateMC)
        /\ UNCHANGED <<indVars, cpVars, rsVars, tfVars, azVars, slVars, ptVars, puVars>>

SpecEval == InitEval /\ [][NextEval]_vars

\* the returned record and what it was computed from
EvReturned == ev_pc = "returned" /\ ev_result # NaN

EvRec == ev_result[1]

EvH == Range(periods_of(ev_kind))

EvN == Len(ev_data.close)

EvOccurrences == {p \in 1..EvN : ev_signals[p]}

\* the rows of returns_df that hold a value for horizon h
EvContributing(h) ==
    {k \in 1..Len(EvRec.returns_df) : EvRec.returns_df[k].ret[h] # NaN}

\* C3: a signal occurrence at index i with i + h >= length(series) never adds
\* a value to horizon h: every value held for h belongs to an occurrence with
\* i + h < length, test_count_h counts exactly the held values, and the
\* returns entering success_rate_h and avg_return_h are those values only.
C3_OutOfRangeNeverCounted ==
    EvReturned =>
        \A h \in EvH :
            LET st == EvRec.stats[h]
            IN /\ \A k \in EvContributing(h) :
                      /\ EvRec.returns_df[k].date \in EvOccurrences
                      /\ (EvRec.returns_df[k].date - 1) + h < EvN
               /\ st.test_count = Cardinality(EvContributing(h))
               /\ Len(st.returns) = st.test_count
               /\ st.test_count <=
                      Cardinality({p \in EvOccurrences : (p - 1) + h < EvN})

\* C3 witness: an occurrence lies too close to the end for horizon h while
\* another occurrence is counted at h
C3_Witness ==
    /\ EvReturned
    /\ \E p \in EvOccurrences, h \in EvH :
          (p - 1) + h >= EvN /\ EvRec.stats[h].test_count > 0

\* C7: for every horizon h, 0 <= success_rate_h <= 100 (in hundredths) and
\* test_count_h <= signal_count.
C7_RateAndCountBounds ==
    EvReturned =>
        \A h \in EvH :
            /\ 0 <= EvRec.stats[h].success_rate
            /\ EvRec.stats[h].success_rate <= 100 * 100
            /\ EvRec.stats[h].test_count <= EvRec.signal_count

\* C7 witness: a horizon with several evaluated occurrences, some but not all
\* successful, and fewer evaluated occurrences than signals
C7_Witness ==
    /\ EvReturned
    /\ \E h \in EvH :
          /\ EvRec.stats[h].test_count >= 2
          /\ EvRec.stats[h].test_count < EvRec.signal_count
          /\ 0 < EvRec.stats[h].success_rate
          /\ EvRec.stats[h].success_rate < 100 * 100

\* entry and exit close of row k at horizon h, and the exact return
\* (x - e) / e * 100 as a numerator over e, in 1/RetScale percent
EvEntry(k) == ev_data.close[EvRec.returns_df[k].date]

EvExit(k, h) == ev_data.close[EvRec.returns_df[k].date + h]

EvExactNum(k, h) == (EvExit(k, h) - EvEntry(k)) * 100 * RetScale

EvRet(k, h) == EvRec.returns_df[k].ret[h][1]

\* the recorded return is the exact percentage (to the model's resolution)
EvIsExact(k, h) ==
    /\ EvEntry(k) * EvRet(k, h) <= EvExactNum(k, h)
    /\ EvExactNum(k, h) < EvEntry(k) * (EvRet(k, h) + 1)

\* the recorded return is the exact percentage rounded to two decimals
EvIsRounded2(k, h) ==
    /\ EvRet(k, h) % (RetScale \div 100) = 0
    /\ 2 * Abs(EvEntry(k) * EvRet(k, h) - EvExactNum(k, h))
           <= (RetScale \div 100) * EvEntry(k)

\* success_rate_h is the share of the rows in S among the test_count_h rows
EvRateIsShare(h, S) ==
    LET st == EvRec.stats[h]
    IN IF st.test_count = 0 THEN st.success_rate = 0
       ELSE 2 * Abs(st.success_rate * st.test_count - Cardinality(S) * 100 * 100)
                <= 2 * st.test_count

\* C8 as stated: the return recorded for horizon h is (x - e) / e * 100, a
\* success for CD exactly when positive and for MC exactly when negative.
C8_ReturnIsExactPercentage ==
    EvReturned =>
        \A h \in EvH :
            /\ \A k \in EvContributing(h) : EvIsExact(k, h)
            /\ EvRateIsShare(h, {k \in EvContributing(h) :
                                    IF ev_kind = "CD" THEN EvExit(k, h) > EvEntry(k)
                                    ELSE EvExit(k, h) < EvEntry(k)})

\* C8 amended: the CD evaluator records (x - e) / e * 100 and counts it a
\* success exactly when it is positive; the MC evaluator records that value
\* rounded to two decimals and counts it a success exactly when the rounded
\* value is negative.  e = 100, x = 110 records 10.0 and e = 100, x = 90
\* records -10.0 in both evaluators.
C8_RecordedReturn ==
    EvReturned =>
        \A h \in EvH :
            /\ \A k \in EvContributing(h) :
                  /\ ev_kind = "CD" => EvIsExact(k, h)
                  /\ ev_kind = "MC" => EvIsRounded2(k, h)
                  /\ (EvEntry(k) = 100 /\ EvExit(k, h) = 110)
                        => EvRet(k, h) = 10 * RetScale
                  /\ (EvEntry(k) = 100 /\ EvExit(k, h) = 90)
                        => EvRet(k, h) = 0 - 10 * RetScale
            /\ EvRateIsShare(h, {k \in EvContributing(h) :
                                    IF ev_kind = "CD" THEN EvRet(k, h) > 0
                                    ELSE EvRet(k, h) < 0})

\* C8 witness: the MC evaluator has recorded a decline of less than 0.005 %
\* as 0 and does not count it as a success
C8_Witness ==
    /\ EvReturned
    /\ ev_kind = "MC"
    /\ \E h \in EvH :
          /\ EvRec.stats[h].test_count = 1
          /\ EvRec.stats[h].success_rate = 0
          /\ \E k \in EvContributing(h) :
                EvExit(k, h) < EvEntry(k) /\ EvRet(k, h) = 0

\* ------------------------------------------------------------------------
\* SpecCompanion: evaluate_mc_at_top_price as calculate_returns calls it.
\*
\* calculate_returns evaluates a CD occurrence only when 100 more bars
\* follow it, and the companion is an MC signal strictly before it.  The
\* data_frame is flat at one base bar except for the bar of the companion
\* and the bar of the CD occurrence.
\* ------------------------------------------------------------------------
BarLevels == {90, 100, 110}

BarSet == {[low |-> l, close |-> c, high |-> h] :
              l \in BarLevels, c \in BarLevels, h \in BarLevels}

ValidBars == {b \in BarSet : b.low <= b.close /\ b.close <= b.high}

CompLens == {150 + CompSlack}

CompCdPositions(n) == {c \in 50..(50 + CompSlack) : (c - 1) + 100 < n}

CompMcPositions(c) == {m \in {3, c - 2, c - 1} : m >= 2 /\ m < c}

flat_bars(n, base, m, mbar, c, cbar) ==
    LET bar(j) == IF j = m THEN mbar ELSE IF j = c THEN cbar ELSE base
    IN [high  |-> [j \in 1..n |-> bar(j).high],
        low   |-> [j \in 1..n |-> bar(j).low],
        close |-> [j \in 1..n |-> bar(j).close]]

CpInit ==
    \E n \in CompLens, base \in ValidBars, mbar \in ValidBars, cbar \in ValidBars :
      \E c \in CompCdPositions(n) :
        \E m \in CompMcPositions(c) :
            /\ cp_data = flat_bars(n, base, m, mbar, c, cbar)
            /\ cp_mc_pos = m
            /\ cp_cd_pos = c
            /\ cp_metrics = default_metrics
            /\ cp_pc = "call"

EvaluateCompanion ==
    /\ cp_pc = "call"
    /\ cp_metrics' = evaluate_mc_at_top_price(cp_data, cp_mc_pos,
                         cp_data.close[cp_mc_pos], cp_cd_pos)
    /\ cp_pc' = "returned"
    /\ UNCHANGED <<cp_data, cp_mc_pos, cp_cd_pos>>

InitCompanion == CpInit /\ IndIdle /\ EvIdle /\ RsIdle /\ TfIdle /\ AzIdle /\ SlIdle /\ PtIdle /\ PuIdle

NextCompanion == EvaluateCompanion /\ UNCHANGED <<indVars, evVars, rsVars, tfVars,
                                            azVars, slVars, ptVars, puVars>>

SpecCompanion == InitCompanion /\ [][NextCompanion]_vars

\* the number of sub-heuristics that hold in the returned metrics
CpHolding ==
    Cardinality({f \in {"near", "decline", "localmax"} :
        \/ f = "near" /\ cp_metrics.is_near_lookback_high
        \/ f = "decline" /\ cp_metrics.is_followed_by_decline
        \/ f = "localmax" /\ cp_metrics.is_local_maximum})

\* C9: is_at_top_price is True if and only if at least 2 of the 3
\* sub-heuristics hold: True when exactly two hold, False when only one of
\* them is left.
C9_TwoOfThree ==
    cp_pc = "returned" =>
        /\ cp_metrics.is_at_top_price <=> (CpHolding >= 2)
        /\ CpHolding = 2 => cp_metrics.is_at_top_price
        /\ CpHolding = 1 => ~cp_metrics.is_at_top_price

\* C9 witness: exactly two sub-heuristics hold and the result is True
C9_Witness ==
    /\ cp_pc = "returned"
    /\ CpHolding = 2
    /\ cp_metrics.is_at_top_price

\* ------------------------------------------------------------------------
\* SpecResonance: identify_1234 / identify_5230 / identify_mc_1234 /
\* identify_mc_5230 on the detail file save_results wrote.
\*
\* Ticker XYZ has at most one signal in each interval of the family, the
\* third interval on one of the last two dates and the last interval on the
\* last date only; ticker ABC has no signal, one signal, or three intervals
\* on the first or on the last date.  The first interval of the family signals on
\* the later bar of the day.  The reference bars of a ticker are missing,
\* empty, rising, falling, or rising and one date short.
\* ------------------------------------------------------------------------
Families == {"1234", "5230"}

detail_row(family, ticker, interval, date) ==
    [ticker |-> ticker, interval |-> interval,
     score |-> interval_weights(interval) * 50,
     signal_date |-> date * DaySlots
                     + (IF interval = intervals_of(family)[1] THEN 1 ELSE 0),
     signal_price |-> 10000 + 100 * date + interval_number(interval),
     breakthrough_date |-> 0]

\* the rows process_ticker_1234 / process_ticker_5230 return for a ticker
\* whose interval k signals on date on[k] (0: no signal)
ticker_rows(family, ticker, on) ==
    LET hit == {k \in 1..4 : on[k] # 0}
        all == [k \in 1..4 |-> detail_row(family, ticker, intervals_of(family)[k],
                                   IF on[k] = 0 THEN 1 ELSE on[k])]
    IN rows_where(all, hit)

AbcShapes ==
    {[k \in 1..4 |-> 0],
     [k \in 1..4 |-> IF k = 1 THEN Min2(2, MaxDate) ELSE 0],
     [k \in 1..4 |-> IF k <= 3 THEN 1 ELSE 0],
     [k \in 1..4 |-> IF k >= 2 THEN MaxDate ELSE 0]}

\* the reference bars of ABC and of XYZ
RefShapes ==
    {<<"rising", "rising">>, <<"rising", "missing">>, <<"missing", "empty">>,
     <<"rising", "falling">>, <<"missing", "short">>}

\* the signal dates of XYZ in the four intervals of the family
XyzShapes ==
    {on \in [1..4 -> 0..MaxDate] :
        on[3] \in {0, MaxDate - 1, MaxDate} /\ on[4] \in {0, MaxDate}}

\* the reference frame: daily bars for the 1234 family, two hourly bars a
\* day for the 5230 family
reference_frame(family, shape) ==
    LET per_day == IF family = "1234" THEN 1 ELSE 2
        days == IF shape = "short" THEN MaxDate - 1 ELSE MaxDate
    IN IF shape = "empty" THEN <<>>
       ELSE [i \in 1..(days * per_day) |->
                [date |-> 1 + (i - 1) \div per_day,
                 close |-> IF shape = "falling" THEN (200 - 10 * i) * Scale
                                                ELSE (100 + 10 * i) * Scale]]

ticker_data_of(family, abc, xyz) ==
    [t \in {u \in {"ABC", "XYZ"} : (IF u = "ABC" THEN abc ELSE xyz) # "missing"} |->
        reference_frame(family, IF t = "ABC" THEN abc ELSE xyz)]

RsInit ==
    \E kind \in {"CD", "MC"}, family \in Families,
       xyz \in XyzShapes, abc \in AbcShapes, ref \in RefShapes :
        /\ rs_kind = kind
        /\ rs_family = family
        /\ rs_file = save_results(ticker_rows(family, "ABC", abc)
                                  \o ticker_rows(family, "XYZ", xyz), no_file)
        /\ rs_all_ticker_data = ticker_data_of(family, ref[1], ref[2])
        /\ rs_emitted = <<>>
        /\ rs_out = [status |-> "none", type |-> "none", rows |-> <<>>]
        /\ rs_pc = "call"

Identify ==
    /\ rs_pc = "call"
    /\ rs_out' \in identify(rs_kind, rs_family, rs_file, rs_all_ticker_data)
    /\ rs_emitted' = breakout_candidates(rs_kind, rs_family, rs_file.rows)
    /\ rs_pc' = "returned"
    /\ UNCHANGED <<rs_kind, rs_family, rs_file, rs_all_ticker_data>>

InitResonance == RsInit /\ IndIdle /\ EvIdle /\ CpIdle /\ TfIdle /\ AzIdle /\ SlIdle /\ PtIdle /\ PuIdle

NextResonance ==
    Identify /\ UNCHANGED <<indVars, evVars, cpVars, tfVars, azVars, slVars, ptVars, puVars>>

SpecResonance == InitResonance /\ [][NextResonance]_vars

\* the events of the detail file in the required intervals, by date
RsEvents ==
    {[ticker |-> rs_file.rows[j].ticker, interval |-> rs_file.rows[j].interval,
      date |-> to_date(rs_file.rows[j].signal_date)] :
        j \in {i \in 1..Len(rs_file.rows) :
                   rs_file.rows[i].interval \in required_intervals(rs_family)}}

RsDates == {e.date : e \in RsEvents}

\* the window that starts on date d: d and the next two distinct signal dates
RsWindow(d) ==
    {x \in RsDates : x >= d /\ Cardinality({y \in RsDates : d <= y /\ y <= x}) <= 3}

\* the distinct required intervals in which ticker t has an event in window w
RsIntervals(t, w) == {e.interval : e \in {f \in RsEvents : f.ticker = t /\ f.date \in w}}

\* the most recent date on which ticker t has an event in window w
RsLatest(t, w) == SetMax({e.date : e \in {f \in RsEvents : f.ticker = t /\ f.date \in w}})

\* the number of contributing intervals a candidate carries
RsCount(c) == IF rs_kind = "CD" THEN c.score ELSE Len(c.intervals)

\* candidate c comes from the window starting on d
RsFrom(c, d) ==
    /\ Cardinality(RsIntervals(c.ticker, RsWindow(d))) >= 3
    /\ c.date = RsLatest(c.ticker, RsWindow(d))
    /\ RsCount(c) = Cardinality(RsIntervals(c.ticker, RsWindow(d)))

\* the candidates the detector returned
RsReturned == {rs_out.rows[k].candidate : k \in 1..Len(rs_out.rows)}

RsEmitted == {rs_emitted[k] : k \in 1..Len(rs_emitted)}

\* C4: every candidate, built by the window loop or returned, comes from a
\* window in which its ticker has events in at least 3 distinct required
\* intervals; a ticker with fewer than 3 in every window is never emitted.
C4_ThreeIntervalsInOneWindow ==
    rs_pc = "returned" =>
        /\ \A c \in RsEmitted \cup RsReturned : \E d \in RsDates : RsFrom(c, d)
        /\ \A t \in {e.ticker : e \in RsEvents} :
              (\A d \in RsDates : Cardinality(RsIntervals(t, RsWindow(d))) < 3)
                  => \A c \in RsEmitted \cup RsReturned : c.ticker # t

\* C4 witness: one ticker is returned as a candidate while the other has
\* events but fewer than 3 distinct intervals in every window
C4_Witness ==
    /\ rs_pc = "returned"
    /\ \E c \in RsReturned :
          \E t \in {e.ticker : e \in RsEvents} :
              /\ t # c.ticker
              /\ \A d \in RsDates : Cardinality(RsIntervals(t, RsWindow(d))) < 3

\* the keys that qualify in some window
RsQualifying ==
    {key \in {<<e.ticker, x>> : e \in RsEvents, x \in RsDates} :
        \E d \in RsDates :
            /\ Cardinality(RsIntervals(key[1], RsWindow(d))) >= 3
            /\ key[2] = RsLatest(key[1], RsWindow(d))}

\* the detail file holds exactly the events of the example: one ticker,
\* the first two intervals on date D and the third on date D + 1
RsExample(D) ==
    RsEvents = {[ticker |-> "XYZ", interval |-> intervals_of(rs_family)[1], date |-> D],
                [ticker |-> "XYZ", interval |-> intervals_of(rs_family)[2], date |-> D],
                [ticker |-> "XYZ", interval |-> intervals_of(rs_family)[3], date |-> D + 1]}

Times1h == {510, 570, 630, 690, 750, 930, 960}

Times5m == {565, 570, 575, 580, 585, 595, 960}

LaterDay(op) == IF op = "1h" THEN {570, 630, 690, 750} ELSE {570, 575, 580, 585}

WeekShapes == {{}, {1}, {1, 2, 3, 4, 5}, {3, 4, 5}, {1, 5}}

ValuePatterns == {"rising", "falling"}

\* the frame with one bar on each stamp of the set, in timestamp order
frame_of(stamps, pattern) ==
    LET n == Cardinality(stamps)
        at(k) == CHOOSE st \in stamps :
                     Cardinality({o \in stamps :
                         o[1] < st[1] \/ (o[1] = st[1] /\ o[2] < st[2])}) = k - 1
        base(k) == IF pattern = "rising" THEN 100 + 10 * k ELSE 300 - 10 * k
    IN [k \in 1..n |->
           [date |-> at(k)[1], time |-> at(k)[2], Open |-> base(k),
            High |-> base(k) + 5, Low |-> base(k) - 5, Close |-> base(k) + 2,
            Volume |-> 1000 + k]]

IntradayStamps(op) ==
    {({1} \X first) \cup UNION {{d} \X LaterDay(op) : d \in later} :
        first \in SUBSET (IF op = "1h" THEN Times1h ELSE Times5m),
        later \in SUBSET (2..IntradayDays)}

DailyStamps ==
    {UNION {{<<7 * (w - 1) + wd, 0>> : wd \in shape[w]} : w \in 1..MaxWeeks} :
        shape \in [1..MaxWeeks -> WeekShapes]}

TfInit ==
    \E op \in {"1h", "5m", "1w", "download_1234", "download_5230"},
       pattern \in ValuePatterns :
      \E stamps \in (CASE op = "1w" -> DailyStamps
                       [] op = "download_1234" -> IntradayStamps("1h")
                       [] op = "download_5230" -> IntradayStamps("5m")
                       [] OTHER -> IntradayStamps(op)),
         new_interval \in (CASE op = "1h" -> {"1h", "2h", "3h", "4h"}
                             [] op = "5m" -> {"5m", "10m", "15m", "30m"}
                             [] op = "1w" -> {"1w"}
                             [] op = "download_1234" -> {"1h"}
                             [] op = "download_5230" -> {"5m"}) :
        /\ tf_op = op
        /\ tf_df = frame_of(stamps, pattern)
        /\ tf_interval = new_interval
        /\ tf_out = [status |-> "none", rows |-> <<>>]
        /\ tf_pc = "call"
        /\ tf_data_ticker = <<>>

Transform1h ==
    /\ tf_pc = "call" /\ tf_op = "1h"
    /\ tf_out' = transform_1h_data(tf_df, tf_interval)
    /\ tf_pc' = "returned"
    /\ UNCHANGED <<tf_op, tf_df, tf_interval, tf_data_ticker>>

Transform5m ==
    /\ tf_pc = "call" /\ tf_op = "5m"
    /\ tf_out' = transform_5m_data(tf_df, tf_interval)
    /\ tf_pc' = "returned"
    /\ UNCHANGED <<tf_op, tf_df, tf_interval, tf_data_ticker>>

ResampleWeekly ==
    /\ tf_pc = "call" /\ tf_op = "1w"
    /\ tf_out' = resample_weekly(tf_df)
    /\ tf_pc' = "returned"
    /\ UNCHANGED <<tf_op, tf_df, tf_interval, tf_data_ticker>>

\* tf_df is what stock.history returns for the base interval (a download
\* that raises leaves an empty frame in the base entry)
DownloadData1234 ==
    /\ tf_pc = "call" /\ tf_op = "download_1234"
    /\ tf_data_ticker' = download_data("1234", tf_df)
    /\ tf_pc' = "returned"
    /\ UNCHANGED <<tf_op, tf_df, tf_interval, tf_out>>

DownloadData5230 ==
    /\ tf_pc = "call" /\ tf_op = "download_5230"
    /\ tf_data_ticker' = download_data("5230", tf_df)
    /\ tf_pc' = "returned"
    /\ UNCHANGED <<tf_op, tf_df, tf_interval, tf_out>>

InitResample == TfInit /\ IndIdle /\ EvIdle /\ CpIdle /\ RsIdle /\ AzIdle /\ SlIdle /\ PtIdle /\ PuIdle

NextResample ==
    (Transform1h \/ Transform5m \/ ResampleWeekly \/ DownloadData1234
        \/ DownloadData5230)
        /\ UNCHANGED <<indVars, evVars, cpVars, rsVars, azVars, slVars, ptVars, puVars>>

SpecResample == InitResample /\ [][NextResample]_vars

\* the base bars that make up the output bar b
TfConstituents(b) ==
    IF tf_op = "1w"
    THEN {i \in 1..Len(tf_df) : week_of(tf_df[i].date) = week_of(b.date)}
    ELSE {i \in 1..Len(tf_df) :
             /\ tf_df[i].date = b.date
             /\ tf_df[i].time >= SessionOpen /\ tf_df[i].time <= SessionClose
             /\ tf_df[i].time >= b.time
             /\ tf_df[i].time < b.time + interval_minutes(tf_interval)}

RECURSIVE TfVolume(_)
TfVolume(S) ==
    IF S = {} THEN 0
    ELSE LET i == CHOOSE x \in S : TRUE IN tf_df[i].Volume + TfVolume(S \ {i})

\* the earliest and the latest of a set of base bars
TfFirst(S) == CHOOSE i \in S : \A j \in S : ~stamp_before(tf_df[j], tf_df[i])

TfLast(S) == CHOOSE i \in S : \A j \in S : ~stamp_before(tf_df[i], tf_df[j])

None == [none |-> TRUE, items |-> <<>>]

List(items) == [none |-> FALSE, items |-> items]

truthy(x) == ~x.none /\ x.items # <<>>

\* the intervals in which a ticker with signals has one, all on date 1
SignalShape == [k \in 1..4 |-> IF k <= 3 THEN 1 ELSE 0]

\* a ticker with signals in two intervals only
SparseShape == [k \in 1..4 |-> IF k <= 2 THEN 1 ELSE 0]

\* the dict download_stock_data returned for a ticker with data, reduced to
\* its two reference frames
ticker_data(ticker) ==
    [d1 |-> reference_frame("1234", "rising"),
     h1 |-> reference_frame("5230", "rising")]

\* the tuple process_ticker_all returns: 5 elements when every frame is
\* empty, 7 elements when the processing raised, 7 elements otherwise
process_ticker_all(ticker, behaviour) ==
    CASE behaviour = "nodata" ->
            <<None, None, List(<<>>), List(<<>>), None>>
      [] behaviour = "raises" ->
            <<None, None, List(<<>>), List(<<>>), List(<<>>), List(<<>>), None>>
      [] behaviour = "quiet" ->
            <<List(<<>>), List(<<>>), List(<<>>), List(<<>>),
              List(<<[ticker |-> ticker, kind |-> "CD"]>>),
              List(<<[ticker |-> ticker, kind |-> "MC"]>>),
              List(<<ticker_data(ticker)>>)>>
      [] behaviour = "sparse" ->
            <<List(ticker_rows("1234", ticker, SparseShape)),
              List(ticker_rows("5230", ticker, SparseShape)),
              List(ticker_rows("1234", ticker, SparseShape)),
              List(ticker_rows("5230", ticker, SparseShape)),
              List(<<[ticker |-> ticker, kind |-> "CD"]>>),
              List(<<[ticker |-> ticker, kind |-> "MC"]>>),
              List(<<ticker_data(ticker)>>)>>
      [] behaviour = "signals" ->
            <<List(ticker_rows("1234", ticker, SignalShape)),
              List(ticker_rows("5230", ticker, SignalShape)),
              List(ticker_rows("1234", ticker, SignalShape)),
              List(ticker_rows("5230", ticker, SignalShape)),
              List(<<[ticker |-> ticker, kind |-> "CD"]>>),
              List(<<[ticker |-> ticker, kind |-> "MC"]>>),
              List(<<ticker_data(ticker)>>)>>

\* results.extend(r) under "if r:"
extend_if(results, r) == IF truthy(r) THEN results \o r.items ELSE results

\* the collection loop over batch_results: unpacking a tuple that does not
\* have 7 elements raises ValueError and leaves the loop
RECURSIVE collect_from(_, _, _, _)
collect_from(tickers, results, i, acc) ==
    IF i > Len(results) THEN acc
    ELSE IF Len(results[i]) # 7 THEN [acc EXCEPT !.error = "ValueError"]
    ELSE LET r == results[i]
             ticker == tickers[i]
         IN collect_from(tickers, results, i + 1,
                [results_1234     |-> extend_if(acc.results_1234, r[1]),
                 results_5230     |-> extend_if(acc.results_5230, r[2]),
                 mc_results_1234  |-> extend_if(acc.mc_results_1234, r[3]),
                 mc_results_5230  |-> extend_if(acc.mc_results_5230, r[4]),
                 cd_eval_results  |-> extend_if(acc.cd_eval_results, r[5]),
                 mc_eval_results  |-> extend_if(acc.mc_eval_results, r[6]),
                 all_ticker_data  |-> IF truthy(r[7])
                                      THEN (ticker :> r[7].items[1]) @@ acc.all_ticker_data
                                      ELSE acc.all_ticker_data,
                 failed_tickers   |-> IF truthy(r[7]) THEN acc.failed_tickers
                                      ELSE Append(acc.failed_tickers, ticker),
                 error            |-> acc.error])

\* the four resonance stages of analyze_stocks, in order
Stages == <<"1234", "5230", "mc_1234", "mc_5230">>

stage_kind(stage) == IF stage \in {"1234", "5230"} THEN "CD" ELSE "MC"

stage_family(stage) == IF stage \in {"1234", "mc_1234"} THEN "1234" ELSE "5230"

\* all_ticker_data[ticker]['1d'] / all_ticker_data[ticker]['1h']
reference_view(all_ticker_data, family) ==
    [t \in DOMAIN all_ticker_data |->
        IF family = "1234" THEN all_ticker_data[t].d1 ELSE all_ticker_data[t].h1]

\* ------------------------------------------------------------------------
\* SpecAnalyze: analyze_stocks.
\*
\* The stock list is a prefix of StockUniverse; the environment fixes, for
\* each ticker, whether its processing yields signals in three intervals,
\* in two intervals, yields data without signals, finds no data, or raises.  The output directory either is empty
\* or holds the four detail files of an earlier run.  The source's batch
\* size (50) and pool size (up to 8) are scaled to BatchSize and
\* NumProcesses.
\* ------------------------------------------------------------------------
StockUniverse == <<"XYZ", "ABC", "MNO">>

Behaviours == {"signals", "sparse", "quiet", "nodata", "raises"}

\* the detail file an earlier run left for a stage
earlier_file(stage) ==
    save_results(ticker_rows(stage_family(stage), "ABC", SignalShape), no_file)

AzInit ==
    \E n \in 0..MaxStocks, earlier \in BOOLEAN :
      \E behaviour \in [1..n -> Behaviours] :
        /\ stock_list = SubSeq(StockUniverse, 1, n)
        /\ az_behaviour = behaviour
        /\ az_pc = IF n = 0 THEN "resonance" ELSE "loop"
        /\ az_i = 0
        /\ batch = <<>>
        /\ az_pending = {}
        /\ az_running = {}
        /\ batch_results = <<>>
        /\ az_acc = empty_acc
        /\ az_stage = 1
        /\ az_files = [k \in 1..Len(Stages) |->
                          IF earlier THEN earlier_file(Stages[k]) ELSE no_file]
        /\ az_summaries = <<>>
        /\ az_log = <<>>
        /\ az_order = <<>>

\* Pool.map with the results appended as the workers complete
map_result_by_completion(results, k, r) == Append(results, r)

\* Pool.map puts the result of the k-th ticker at position k of its list
map_result(results, k, r) == (k :> r) @@ results

\* batch = stock_list[i:i+batch_size]; the pool is created and map is called
StartBatch ==
    /\ az_pc = "loop"
    /\ batch' = SubSeq(stock_list, az_i + 1, Min2(az_i + BatchSize, Len(stock_list)))
    /\ az_pending' = 1..Len(batch')
    /\ az_running' = {}
    /\ batch_results' = <<>>
    /\ az_pc' = "map"
    /\ UNCHANGED <<stock_list, az_behaviour, az_i, az_acc, az_stage, az_files,
                   az_summaries, az_log, az_order>>

\* a free worker process takes a ticker of the batch
WorkerStart ==
    /\ az_pc = "map"
    /\ Cardinality(az_running) < NumProcesses
    /\ \E k \in az_pending :
          /\ az_pending' = az_pending \ {k}
          /\ az_running' = az_running \cup {k}
    /\ UNCHANGED <<stock_list, az_behaviour, az_pc, az_i, batch, batch_results,
                   az_acc, az_stage, az_files, az_summaries, az_log, az_order>>

\* process_ticker_all returns in a worker; map keeps the results by position
WorkerFinish ==
    /\ az_pc = "map"
    /\ \E k \in az_running :
          /\ az_running' = az_running \ {k}
          /\ batch_results' =
                 map_result(batch_results, k,
                            process_ticker_all(batch[k], az_behaviour[az_i + k]))
          /\ az_order' = Append(az_order, batch[k])
    /\ UNCHANGED <<stock_list, az_behaviour, az_pc, az_i, batch, az_pending,
                   az_acc, az_stage, az_files, az_summaries, az_log>>

\* map has returned: the collection loop over the batch, then the next
\* batch or the resonance stages; a ValueError ends the run
Collect ==
    /\ az_pc = "map"
    /\ az_pending = {} /\ az_running = {}
    /\ az_acc' = collect_from(batch, batch_results, 1, az_acc)
    /\ az_i' = az_i + BatchSize
    /\ az_pc' = IF az_acc'.error # "none" THEN "aborted"
                ELSE IF az_i' < Len(stock_list) THEN "loop" ELSE "resonance"
    /\ UNCHANGED <<stock_list, az_behaviour, batch, az_pending, az_running,
                   batch_results, az_stage, az_files, az_summaries, az_log, az_order>>

\* the results list a stage saves
stage_results(acc, stage) ==
    CASE stage = "1234"    -> acc.results_1234
      [] stage = "5230"    -> acc.results_5230
      [] stage = "mc_1234" -> acc.mc_results_1234
      [] stage = "mc_5230" -> acc.mc_results_5230

\* one resonance stage: save_results, identify_*, save_*_breakout_candidates.
\* An exception of identify_* ends the run, and so does the list that
\* identify_1234 / identify_5230 return for an unreadable file, which has no
\* attribute "empty".
ResonanceStage ==
    /\ az_pc = "resonance"
    /\ LET stage == Stages[az_stage]
           file == save_results(stage_results(az_acc, stage), az_files[az_stage])
       IN /\ az_files' = [az_files EXCEPT ![az_stage] = file]
          /\ az_log' = Append(az_log, [stage |-> stage, read |-> file.rows,
                                       collected |-> stage_results(az_acc, stage)])
          /\ \E out \in identify(stage_kind(stage), stage_family(stage), file,
                                 reference_view(az_acc.all_ticker_data,
                                                stage_family(stage))) :
                IF out.status = "raised"
                THEN /\ az_pc' = "aborted"
                     /\ az_acc' = [az_acc EXCEPT !.error = "identify"]
                     /\ UNCHANGED <<az_stage, az_summaries>>
                ELSE IF out.type = "list"
                THEN /\ az_pc' = "aborted"
                     /\ az_acc' = [az_acc EXCEPT !.error = "AttributeError"]
                     /\ UNCHANGED <<az_stage, az_summaries>>
                ELSE /\ az_summaries' = Append(az_summaries, out.rows)
                     /\ az_stage' = IF az_stage < Len(Stages) THEN az_stage + 1
                                    ELSE az_stage
                     /\ az_pc' = IF az_stage < Len(Stages) THEN "resonance"
                                 ELSE "evaluations"
                     /\ UNCHANGED az_acc
    /\ UNCHANGED <<stock_list, az_behaviour, az_i, batch, az_pending, az_running,
                   batch_results, az_order>>

\* the evaluation records are written
SaveEvaluations ==
    /\ az_pc = "evaluations"
    /\ az_pc' = "done"
    /\ UNCHANGED <<stock_list, az_behaviour, az_i, batch, az_pending, az_running,
                   batch_results, az_acc, az_stage, az_files, az_summaries, az_log, az_order>>

InitAnalyze == AzInit /\ IndIdle /\ EvIdle /\ CpIdle /\ RsIdle /\ TfIdle /\ SlIdle /\ PtIdle /\ PuIdle

NextAnalyze ==
    (StartBatch \/ WorkerStart \/ WorkerFinish \/ Collect \/ ResonanceStage
        \/ SaveEvaluations)
        /\ UNCHANGED <<indVars, evVars, cpVars, rsVars, tfVars, slVars, ptVars, puVars>>

SpecAnalyze == InitAnalyze /\ [][NextAnalyze]_vars

\* the tickers named by the items of an aggregated list
AzTickersIn(items) == {items[k].ticker : k \in 1..Len(items)}

\* the tickers that contributed to some aggregated list or to the data map
AzContributors ==
    AzTickersIn(az_acc.results_1234) \cup AzTickersIn(az_acc.results_5230)
    \cup AzTickersIn(az_acc.mc_results_1234) \cup AzTickersIn(az_acc.mc_results_5230)
    \cup AzTickersIn(az_acc.cd_eval_results) \cup AzTickersIn(az_acc.mc_eval_results)
    \cup DOMAIN az_acc.all_ticker_data

AzFailed == {az_acc.failed_tickers[k] : k \in 1..Len(az_acc.failed_tickers)}

\* the main process has left the batch loop normally
AzPastLoop ==
    \/ az_pc \in {"resonance", "evaluations", "done"}
    \/ az_pc = "aborted" /\ az_acc.error # "ValueError"

\* every ticker is accounted for as the claim says
AzAccounted ==
    \A k \in 1..Len(stock_list) :
        IF az_behaviour[k] \in {"nodata", "raises"}
        THEN /\ stock_list[k] \in AzFailed
             /\ stock_list[k] \notin AzContributors
        ELSE /\ stock_list[k] \notin AzFailed
             /\ stock_list[k] \in DOMAIN az_acc.all_ticker_data
             /\ stock_list[k] \in AzTickersIn(az_acc.cd_eval_results)
             /\ stock_list[k] \in AzTickersIn(az_acc.mc_eval_results)
             /\ az_behaviour[k] \in {"signals", "sparse"} =>
                    stock_list[k] \in AzTickersIn(az_acc.results_1234)
                                      \cap AzTickersIn(az_acc.results_5230)
                                      \cap AzTickersIn(az_acc.mc_results_1234)
                                      \cap AzTickersIn(az_acc.mc_results_5230)

\* C1: a ticker without data, or whose processing raises, never aborts the
\* run: it ends up in failed_tickers and contributes nothing, and every
\* other ticker of its batch and of the later batches is aggregated.
C1_FailedTickerNeverAborts ==
    /\ az_acc.error # "ValueError"
    /\ AzPastLoop => AzAccounted

\* the per-ticker work of the whole stock list is finished and collected
AzBarrier ==
    /\ az_pc \notin {"loop", "map"}
    /\ az_pending = {} /\ az_running = {}
    /\ {stock_list[k] : k \in 1..Len(stock_list)}
           = DOMAIN az_acc.all_ticker_data \cup AzFailed

\* no identify function has run twice
AzOnce ==
    \A i \in 1..Len(az_log), j \in 1..Len(az_log) :
        az_log[i].stage = az_log[j].stage => i = j

\* every identify call read the events collected for its stage
AzWholeSet ==
    \A i \in 1..Len(az_log) :
        {az_log[i].read[k] : k \in 1..Len(az_log[i].read)}
            = {az_log[i].collected[k] : k \in 1..Len(az_log[i].collected)}

\* C10: resonance identification starts only after the per-ticker work of
\* every ticker of every batch has completed and been collected, and each
\* identify function runs once, over the whole collected set of events.
C10_IdentifyAfterAllCollected ==
    az_log # <<>> => AzBarrier /\ AzOnce /\ AzWholeSet

\* the base bars of the frame that lie inside the session window
TfInSession ==
    {i \in 1..Len(tf_df) :
        tf_df[i].time >= SessionOpen /\ tf_df[i].time <= SessionClose}

\* C11: transform_1h_data / transform_5m_data return an empty bar sequence,
\* without raising, when the input is empty and when no bar of the input
\* lies inside the session window.
C11_EmptyWhenNothingToAggregate ==
    (tf_pc = "returned" /\ tf_op \in {"1h", "5m"} /\ TfInSession = {}) =>
        tf_out.status = "returned" /\ tf_out.rows = <<>>

\* the most recent bar that carries a signal
EvLatest == CHOOSE p \in EvOccurrences : \A q \in EvOccurrences : q <= p

\* C15: every record with signal_count > 0 has current_period equal to the
\* index of the last bar minus the index of the most recent signal occurrence.
C15_CurrentPeriodIsBarsSinceSignal ==
    (EvReturned /\ EvRec.signal_count > 0) =>
        EvRec.current_period = (EvN - 1) - (EvLatest - 1)

\* the batch that starts after the first i tickers of the stock list
AzBatchAt(i) == SubSeq(stock_list, i + 1, Min2(i + BatchSize, Len(stock_list)))

\* the results of that batch when one worker processes it in input order
AzSerialResults(i) ==
    [k \in 1..Len(AzBatchAt(i)) |->
        process_ticker_all(stock_list[i + k], az_behaviour[i + k])]

\* the aggregation of the batches before position n, one ticker at a time
RECURSIVE AzSerial(_, _, _)
AzSerial(i, n, acc) ==
    IF i >= n \/ i >= Len(stock_list) \/ acc.error # "none" THEN acc
    ELSE AzSerial(i + BatchSize, n,
                  collect_from(AzBatchAt(i), AzSerialResults(i), 1, acc))

\* the aggregated outputs of an accumulator
AzOutputs(acc) ==
    <<acc.results_1234, acc.results_5230, acc.mc_results_1234,
      acc.mc_results_5230, acc.cd_eval_results, acc.mc_eval_results,
      acc.all_ticker_data, acc.failed_tickers, acc.error = "ValueError">>

\* C12: whatever the order in which the worker processes take and complete
\* the tickers of a batch, the aggregated lists, the data map and the list of
\* failed tickers are the ones a single in-order pass over the stock list
\* produces.
C12_OutputsIndependentOfScheduling ==
    az_pc # "map" => AzOutputs(az_acc) = AzOutputs(AzSerial(0, az_i, empty_acc))

\* C12 witness: the workers completed the tickers in an order other than the
\* stock list's, and several tickers contributed events and data
C12_Witness ==
    /\ az_pc \in {"resonance", "evaluations", "done"}
    /\ Len(az_order) = Len(stock_list)
    /\ az_order # stock_list
    /\ Cardinality(AzTickersIn(az_acc.results_1234)) >= 2
    /\ Cardinality(DOMAIN az_acc.all_ticker_data) >= 2

\* ------------------------------------------------------------------------
\* SpecStockList: the stock list file, the stock_lists table and the loaders
\* ------------------------------------------------------------------------
MaxLines == 3

MaxLoads == 2

\* the list name load_stock_list_compatible derives from the file path, and
\* the name of another list of the database
MaxSaves == 3

ListName == "test_stocks"

OtherList == "other"

\* version = None
LatestActive == 0

\* the non-blank lines of a file, in file order
RECURSIVE non_blank(_)
non_blank(lines) ==
    IF lines = <<>> THEN <<>>
    ELSE IF Head(lines) = "" THEN non_blank(Tail(lines))
    ELSE <<Head(lines)>> \o non_blank(Tail(lines))

\* DatabaseManager.load_stock_list_from_file
load_stock_list_from_file(file) == non_blank(file)

\* data_loader.load_stock_list: read_csv skips blank lines and raises
\* EmptyDataError when the file has no line to parse
load_stock_list(file) ==
    IF non_blank(file) = <<>> THEN [status |-> "raised", rows |-> <<>>]
    ELSE [status |-> "returned", rows |-> non_blank(file)]

\* COALESCE(MAX(version), 0) + 1 over the rows of the list
next_version(db, list_name) ==
    LET versions == {db[k].version : k \in {j \in 1..Len(db) : db[j].list_name = list_name}}
    IN IF versions = {} THEN 1 ELSE SetMax(versions) + 1

\* variant of save_stock_list that leaves the earlier rows active
save_stock_list_keep_active(db, list_name, tickers, update_existing) ==
    db \o [k \in 1..Len(tickers) |->
              [list_name |-> list_name, version |-> next_version(db, list_name),
               ticker |-> tickers[k], is_active |-> TRUE]]

\* DatabaseManager.save_stock_list
save_stock_list(db, list_name, tickers, update_existing) ==
    LET version == next_version(db, list_name)
        marked == [k \in 1..Len(db) |->
                      IF update_existing /\ db[k].list_name = list_name
                      THEN [db[k] EXCEPT !.is_active = FALSE] ELSE db[k]]
    IN marked \o [k \in 1..Len(tickers) |->
                    [list_name |-> list_name, version |-> version,
                     ticker |-> tickers[k], is_active |-> TRUE]]

\* ORDER BY ticker
order_by_ticker(rows) ==
    LET n == Len(rows)
        rank(i) == Cardinality({j \in 1..n :
                       \/ ticker_order(rows[j].ticker) < ticker_order(rows[i].ticker)
                       \/ j < i /\ rows[j].ticker = rows[i].ticker})
    IN [k \in 1..n |-> rows[CHOOSE i \in 1..n : rank(i) = k - 1]]

\* DatabaseManager.get_stock_list
get_stock_list(db, list_name, version) ==
    LET selected == rows_where(db, {k \in 1..Len(db) :
                        /\ db[k].list_name = list_name
                        /\ IF version = LatestActive THEN db[k].is_active
                           ELSE db[k].version = version})
        ordered == order_by_ticker(selected)
    IN [k \in 1..Len(ordered) |-> ordered[k].ticker]

\* DatabaseManager.load_stock_list_compatible: the tickers returned and the
\* table afterwards
load_stock_list_compatible(db, file) ==
    LET tickers == get_stock_list(db, ListName, LatestActive)
        from_file == load_stock_list_from_file(file)
    IN IF tickers # <<>> THEN [tickers |-> tickers, db |-> db]
       ELSE IF from_file # <<>>
            THEN [tickers |-> from_file,
                  db |-> save_stock_list(db, ListName, from_file, TRUE)]
            ELSE [tickers |-> from_file, db |-> db]

\* a stock list file of up to MaxLines lines, and a database that is new or
\* holds another list
SlInit ==
    \E file \in SeqsUpTo(Range(Tickers) \cup {""}, MaxLines), other \in BOOLEAN :
        /\ sl_file = file
        /\ sl_db = IF other
                   THEN save_stock_list(<<>>, OtherList, <<"XYZ", "ABC">>, TRUE)
                   ELSE <<>>
        /\ sl_loads = <<>>
        /\ sl_direct = <<>>
        /\ sl_saves = <<>>

LoadStockListCompatible ==
    /\ Len(sl_loads) < MaxLoads
    /\ LET out == load_stock_list_compatible(sl_db, sl_file)
       IN /\ sl_db' = out.db
          /\ sl_loads' = Append(sl_loads, [via |-> "database_manager",
                                           status |-> "returned",
                                           rows |-> out.tickers])
    /\ UNCHANGED <<sl_file, sl_direct, sl_saves>>

LoadStockList ==
    /\ Len(sl_loads) < MaxLoads
    /\ LET out == load_stock_list(sl_file)
       IN sl_loads' = Append(sl_loads, [via |-> "data_loader",
                                        status |-> out.status,
                                        rows |-> out.rows])
    /\ UNCHANGED <<sl_file, sl_db, sl_direct, sl_saves>>

GetStockList ==
    /\ \E version \in {LatestActive, 1} :
          sl_direct' = <<[after |-> sl_loads, saves |-> sl_saves,
                          version |-> version,
                          rows |-> get_stock_list(sl_db, ListName, version)]>>
    /\ UNCHANGED <<sl_file, sl_db, sl_loads, sl_saves>>

InitStockList ==
    SlInit /\ IndIdle /\ EvIdle /\ CpIdle /\ RsIdle /\ TfIdle /\ AzIdle /\ PtIdle /\ PuIdle

NextStockList ==
    (LoadStockListCompatible \/ LoadStockList \/ GetStockList)
        /\ UNCHANGED <<indVars, evVars, cpVars, rsVars, tfVars, azVars, ptVars, puVars>>

SpecStockList == InitStockList /\ [][NextStockList]_vars

\* the tickers of the file, in file order
SlOriginal == non_blank(sl_file)

\* the file has been loaded through the database manager, which stored it
SlStored(loads) ==
    SlOriginal # <<>> /\ \E k \in 1..Len(loads) : loads[k].via = "database_manager"

\* C13: once the file has been loaded and stored, every load of the file
\* returns the tickers of the file in file order (so a second load equals the
\* first), and get_stock_list for the list name returns that same list.
C13_StockListReadsBackUnchanged ==
    /\ SlStored(sl_loads) =>
          \A k \in 1..Len(sl_loads) : sl_loads[k].rows = SlOriginal
    /\ (sl_direct # <<>> /\ SlStored(sl_direct[1].after)) =>
          sl_direct[1].rows = SlOriginal

\* the rows of the detail file the window loop works on, and its date list
RsDf == required_rows(rs_family, rs_file.rows)

RsUniqueDates == unique_dates_of(RsDf)

\* the window of every list position i holds exactly the rows dated on the
\* list entries at positions i..i+2, clamped to the end of the list
RsWindowsByPosition ==
    \A i \in 1..Len(RsUniqueDates) :
        LET entries == {RsUniqueDates[k] : k \in i..Min2(i + 2, Len(RsUniqueDates))}
            window == window_data(RsDf, RsUniqueDates, i)
        IN {window[k] : k \in 1..Len(window)}
               = {RsDf[j] : j \in {k \in 1..Len(RsDf) :
                                      to_date(RsDf[k].signal_date) \in entries}}

\* the date list is in reverse chronological order
RsDatesDescending ==
    \A i \in 1..Len(RsUniqueDates), j \in 1..Len(RsUniqueDates) :
        i < j => RsUniqueDates[i] > RsUniqueDates[j]

\* the date list is in chronological order
RsDatesAscending ==
    \A i \in 1..Len(RsUniqueDates), j \in 1..Len(RsUniqueDates) :
        i < j => RsUniqueDates[i] < RsUniqueDates[j]

\* C14 as stated: the list of distinct signal dates is in reverse
\* chronological order, and the window of the date at position i holds
\* exactly the events dated on the list entries at positions i..i+2.
C14_WindowByPositionNewestFirst ==
    rs_pc = "returned" => RsDatesDescending /\ RsWindowsByPosition

\* C14: the list of distinct signal dates is in chronological order (the file
\* is read newest first and the list is reversed), and the window of the date
\* at position i holds exactly the events dated on the list entries at
\* positions i..i+2, clamped to the end of the list, whatever the calendar
\* distance between those dates.
C14_WindowByPosition ==
    rs_pc = "returned" => RsDatesAscending /\ RsWindowsByPosition

\* C14 witness: a window whose three list entries span more than three
\* calendar days, and a clamped window at the end of the list
C14_Witness ==
    /\ rs_pc = "returned"
    /\ Len(RsUniqueDates) >= 3
    /\ \E i \in 1..(Len(RsUniqueDates) - 2) :
          /\ RsUniqueDates[i + 2] - RsUniqueDates[i] > 2
          /\ window_data(RsDf, RsUniqueDates, i) # <<>>
          /\ \E k \in 1..Len(RsDf) : to_date(RsDf[k].signal_date) = RsUniqueDates[i + 2]

\* the cap on the number of occurrences the evaluator looks at
EvK == IF ev_kind = "CD" THEN MAX_SIGNALS_THRESHOLD_CD ELSE MAX_SIGNALS_THRESHOLD_MC

\* the EvK most recent signal occurrences
EvRecent == {p \in EvOccurrences : Cardinality({q \in EvOccurrences : q > p}) < EvK}

\* the occurrences with max(H) bars after them
EvInRange == {p \in EvOccurrences : (p - 1) + SetMax(EvH) < EvN}

\* the occurrences that have a row in returns_df
EvEvaluated == {EvRec.returns_df[k].date : k \in 1..Len(EvRec.returns_df)}

\* C16: the occurrences evaluated are exactly those among the K most recent
\* (K = 10 for CD, 7 for MC) with i + max(H) < length(series), each once;
\* older occurrences and occurrences too close to the end have no row.
C16_EvaluatedOccurrences ==
    EvReturned =>
        /\ EvEvaluated = EvRecent \cap EvInRange
        /\ Len(EvRec.returns_df) = Cardinality(EvEvaluated)

\* C16 witness: one occurrence is evaluated, an older one with enough bars
\* after it is left out by the cap, and a recent one is too close to the end
C16_Witness ==
    /\ EvReturned
    /\ EvEvaluated # {}
    /\ EvInRange \ EvRecent # {}
    /\ EvRecent \ EvInRange # {}

\* the companion price, and the bars of the three sub-heuristics: from the
\* end of warm-up to the current signal, from the companion bar to the
\* current signal, and the window around the companion bar
CpPrice == cp_data.close[cp_mc_pos]

CpLen == Len(cp_data.close)

CpLookback ==
    {j \in 1..CpLen : Min2(EMA_WARMUP_PERIOD, CpLen - 1) + 1 <= j /\ j <= cp_cd_pos}

CpLookahead == {j \in 1..CpLen : cp_mc_pos <= j /\ j <= cp_cd_pos}

CpHalfWidth == Max2(3, Min2(10, CpLen \div 20))

CpWindow ==
    {j \in 1..CpLen : cp_mc_pos - CpHalfWidth <= j /\ j <= cp_mc_pos + CpHalfWidth}

\* (c): the companion price is at or above the high of at least 70% of the
\* bars of the window, which holds more than one bar
CpRanksHigh ==
    /\ Cardinality(CpWindow) > 1
    /\ Cardinality({j \in CpWindow : CpPrice >= cp_data.high[j]}) * 10
           >= 7 * Cardinality(CpWindow)

\* (a) as stated: the companion price lies in the top 20% of the range of the
\* close prices from the end of warm-up to the current signal
CpInTopOfCloseRange ==
    LET lo == SetMin({cp_data.close[j] : j \in CpLookback})
        hi == SetMax({cp_data.close[j] : j \in CpLookback})
    IN CpLookback # {} /\ hi > lo /\ (CpPrice - lo) * 10 >= 8 * (hi - lo)

\* (b) as stated: the price at the current signal is at least 5% below the
\* companion price
CpMovedAwayAtSignal ==
    (CpPrice - cp_data.close[cp_cd_pos]) * 100 >= 5 * CpPrice

\* (a): the companion price lies in the top 20% of the range from the lowest
\* low to the highest high of the bars from the end of warm-up to the current
\* signal
CpInTopOfHighLowRange ==
    LET lo == SetMin({cp_data.low[j] : j \in CpLookback})
        hi == SetMax({cp_data.high[j] : j \in CpLookback})
    IN CpLookback # {} /\ hi > lo /\ (CpPrice - lo) * 10 >= 8 * (hi - lo)

\* (b): the lowest low of the bars from the companion bar to the current
\* signal is at least 5% below the companion price
CpDeclinedSince ==
    /\ Cardinality(CpLookahead) > 1
    /\ (CpPrice - SetMin({cp_data.low[j] : j \in CpLookahead})) * 100 >= 5 * CpPrice

\* C17 as stated: (a) is judged on the range of the close prices from the
\* end of warm-up to the current signal, (b) on the price at the current
\* signal, (c) on the rank of the companion price in the window around it.
C17_HeuristicsOnCloses ==
    cp_pc = "returned" =>
        /\ cp_metrics.is_near_lookback_high <=> CpInTopOfCloseRange
        /\ cp_metrics.is_followed_by_decline <=> CpMovedAwayAtSignal
        /\ cp_metrics.is_local_maximum <=> CpRanksHigh

\* C17: (a) the companion price lies in the top 20% of the low-to-high range
\* of the bars from the end of warm-up to the current signal; (b) the lowest
\* low from the companion bar to the current signal is at least 5% below the
\* companion price; (c) the companion price is at or above the high of at
\* least 70% of the bars in the window of max(3, min(10, len/20)) bars on each
\* side of the companion bar, cut at the ends of the series.
C17_SubHeuristics ==
    cp_pc = "returned" =>
        /\ cp_metrics.is_near_lookback_high <=> CpInTopOfHighLowRange
        /\ cp_metrics.is_followed_by_decline <=> CpDeclinedSince
        /\ cp_metrics.is_local_maximum <=> CpRanksHigh

\* C17 witness: the three sub-heuristics hold although the close at the
\* current signal is back at the companion price
C17_Witness ==
    /\ cp_pc = "returned"
    /\ cp_metrics.is_near_lookback_high
    /\ cp_metrics.is_followed_by_decline
    /\ cp_metrics.is_local_maximum
    /\ ~CpMovedAwayAtSignal
    /\ cp_data.close[cp_cd_pos] = CpPrice

\* the intermediate series of the returned call
IndSeries == ind_locals

IndBars == 1..Len(ind_close)

\* the oscillator's magnitude at bar i - 1 is at least 1.01 times its
\* magnitude at bar i
IndShrunk(i) ==
    Abs(IndSeries.diff[i - 1]) * 100 >= Abs(IndSeries.diff[i]) * 101

\* C18: the qualifying condition holds at bar i exactly when Raw (condition
\* A or condition B) held at bar i - 1 and the oscillator's magnitude has
\* shrunk by at least 1% from bar i - 1 to bar i (the earlier magnitude is at
\* least 1.01 times the later one); it never holds at the first bar.
C18_QualifyingCondition ==
    ind_pc = "returned" =>
        \A i \in IndBars :
            IndSeries.jjj[i] <=> (i > 1 /\ IndSeries.ccc[i - 1] /\ IndShrunk(i))

\* C18 witness: Raw held at one bar and the magnitude shrank, so that the
\* qualifying condition holds at the next, and Raw held at another bar
\* after which the magnitude did not shrink
C18_Witness ==
    /\ ind_pc = "returned"
    /\ \E i \in IndBars : IndSeries.jjj[i]
    /\ \E i \in IndBars : i > 1 /\ IndSeries.ccc[i - 1] /\ ~IndSeries.jjj[i]

\* C19: CD[i] is True exactly when the qualifying condition holds at bar i
\* and not at bar i - 1; CD is never True on two consecutive bars and never
\* True at the first bar.
C19_EdgeTriggered ==
    ind_pc = "returned" =>
        /\ \A i \in IndBars :
              ind_cd[i] <=> (IndSeries.jjj[i] /\ ~(i > 1 /\ IndSeries.jjj[i - 1]))
        /\ \A i \in IndBars : i > 1 => ~(ind_cd[i - 1] /\ ind_cd[i])
        /\ ind_cd # <<>> => ~ind_cd[1]

\* C19 witness: the qualifying condition holds at two consecutive bars and
\* CD is True at the first of them only
C19_Witness ==
    /\ ind_pc = "returned"
    /\ \E i \in IndBars :
          /\ i > 1 /\ IndSeries.jjj[i - 1] /\ IndSeries.jjj[i]
          /\ ind_cd[i - 1] /\ ~ind_cd[i]

\* the chain of a lowest value and two look-backs, on series x
IndChain(x, c1, c2, c3) ==
    \A i \in IndBars :
        LET lag == IndSeries.mm1[i] + 1
        IN /\ c1[i] = Val(SetMin({x[j] : j \in (i - IndSeries.n1[i])..i}))
           /\ c2[i] = IF i - lag >= 1 THEN c1[i - lag] ELSE NaN
           /\ c3[i] = IF i - lag >= 1 THEN c2[i - lag] ELSE NaN

\* C20: CC1[i] is the minimum close over bars i - N1[i]..i, CC2[i] is CC1
\* looked back MM1[i] + 1 bars and CC3[i] is CC2 looked back another
\* MM1[i] + 1 bars; a look-back that reaches before the first bar gives an
\* undefined value, with which no comparison holds (Raw is False at that
\* bar); DIFL1/2/3 are the same chain applied to the oscillator.
C20_LowestValueChain ==
    ind_pc = "returned" =>
        /\ IndChain(ind_close, IndSeries.cc1, IndSeries.cc2, IndSeries.cc3)
        /\ IndChain(IndSeries.diff, IndSeries.difl1, IndSeries.difl2, IndSeries.difl3)
        /\ \A i \in IndBars :
              /\ IndSeries.cc2[i] = NaN => ~IndSeries.ccc[i]
              /\ IndSeries.cc3[i] = NaN => ~IndSeries.bbb[i]

\* C20 witness: at one bar CC1 is taken over several bars and CC1, CC2 and
\* CC3 are defined and differ, and at another bar after the first the second
\* look-back is undefined
C20_Witness ==
    /\ ind_pc = "returned"
    /\ \E i \in IndBars :
          /\ IndSeries.n1[i] >= 1
          /\ IndSeries.cc3[i] # NaN
          /\ IndSeries.cc2[i] # IndSeries.cc1[i]
          /\ IndSeries.cc3[i] # IndSeries.cc2[i]
    /\ \E i \in IndBars : i > 1 /\ IndSeries.cc3[i] = NaN

\* the bars at or before bar i on which an event of the series ev occurred
IndEventsUpTo(ev, i) == {j \in 1..i : ev[j]}

\* res is, at every bar, the number of bars since the most recent event of
\* ev at or before it, and 0 while no event has been seen
IndBarsSince(ev, res) ==
    \A i \in IndBars :
        /\ res[i] = IF IndEventsUpTo(ev, i) = {} THEN 0
                    ELSE i - SetMax(IndEventsUpTo(ev, i))
        /\ 0 <= res[i] /\ res[i] <= i - 1
        /\ (~ev[i] /\ IndEventsUpTo(ev, i) # {}) => res[i] = res[i - 1] + 1

\* C21: _compute_barslast returns, for every bar i, the number of bars
\* elapsed since the most recent event at or before i (0 on an event bar)
\* and 0 when no event has been seen up to i; so 0 <= result[i] <= i (i
\* counted from 0), and on a non-event bar after some event
\* result[i] = result[i-1] + 1.  Checked on both event series of the
\* indicator (falling and rising through zero).
C21_BarsSinceLastEvent ==
    ind_pc = "returned" =>
        /\ IndBarsSince(IndSeries.cross_down, IndSeries.n1)
        /\ IndBarsSince(IndSeries.cross_up, IndSeries.mm1)

\* C21 witness: a falling-through-zero event occurs after the first bar
\* (the bars before it have no event), and two bars later the count is 2
C21_Witness ==
    /\ ind_pc = "returned"
    /\ \E i \in IndBars :
          /\ i > 2 /\ IndSeries.cross_down[i - 2]
          /\ IndEventsUpTo(IndSeries.cross_down, i - 3) = {}
          /\ IndSeries.n1[i - 2] = 0
          /\ IndSeries.n1[i] = 2
    /\ \E i \in IndBars : IndSeries.cross_up[i] /\ i > 1

\* the reference-interval bars of a candidate's ticker in the data map
RsReference(ticker) == reference_bars(rs_all_ticker_data, ticker)

\* EMA(24) > EMA(89) of the reference closes at the last reference bar of
\* date d
RsConfirmed(ticker, d) ==
    LET bars  == RsReference(ticker)
        close == [i \in 1..Len(bars) |-> bars[i].close]
        at    == SetMax({i \in 1..Len(bars) : bars[i].date = d})
    IN ewm(close, 24)[at] > ewm(close, 89)[at]

\* the candidates of the window loop whose ticker has reference bars
RsWithReference ==
    {rs_emitted[k] : k \in {j \in 1..Len(rs_emitted) :
                                RsReference(rs_emitted[j].ticker) # <<>>}}

RsHasDate(c) ==
    \E i \in 1..Len(RsReference(c.ticker)) : RsReference(c.ticker)[i].date = c.date

\* the detector returned exactly the candidates with reference bars, each
\* with its confirmation flag
RsFlagged ==
    /\ rs_out.status = "returned"
    /\ {rs_out.rows[k].candidate : k \in 1..Len(rs_out.rows)} = RsWithReference
    /\ \A k \in 1..Len(rs_out.rows) :
          LET c == rs_out.rows[k].candidate
          IN RsHasDate(c) /\ rs_out.rows[k].nx = RsConfirmed(c.ticker, c.date)

\* C22: every resonance candidate of identify_1234 / identify_5230 whose
\* ticker has non-empty reference-interval bars is returned with a
\* confirmation flag equal to EMA(24) > EMA(89) of the reference closes at
\* the candidate's date, every candidate whose ticker lacks reference data
\* is dropped, and the detector returns normally in both cases.
C22_ConfirmationFlagOrDropped ==
    (rs_pc = "returned" /\ rs_kind = "CD" /\ rs_file.exists) => RsFlagged

\* the same, for the calls in which the reference bars of every candidate
\* that has any include the candidate's date
C22_FlaggedWhenDatePresent ==
    (rs_pc = "returned" /\ rs_kind = "CD" /\ rs_file.exists
       /\ \A c \in RsWithReference : RsHasDate(c)) => RsFlagged

\* a call that returned one candidate flagged True, one flagged False
C22_Flags ==
    /\ rs_pc = "returned" /\ rs_kind = "CD" /\ rs_out.status = "returned"
    /\ \E k \in 1..Len(rs_out.rows) : rs_out.rows[k].nx
    /\ \E k \in 1..Len(rs_out.rows) : ~rs_out.rows[k].nx

\* a call that dropped a candidate without reference bars and kept another
C22_Dropped ==
    /\ rs_pc = "returned" /\ rs_kind = "CD" /\ rs_out.status = "returned"
    /\ rs_out.rows # <<>>
    /\ \E k \in 1..Len(rs_emitted) : RsReference(rs_emitted[k].ticker) = <<>>

\* ------------------------------------------------------------------------
\* SpecAcquire: the evaluation loops of process_ticker_all, which call
\* evaluate_interval (CD) and evaluate_mc_interval (MC) for every interval
\* with the data map download_stock_data returned for the ticker.
\*
\* The map gives the 5m..30m frames, the 1h..4h frames, the 1d frame and
\* the 1w frame each as missing, empty or with bars, and at least one frame
\* has bars (process_ticker_all returns early otherwise).  A call to the
\* data source raises, returns an empty frame or returns bars.  A record is
\* produced whenever the selected frame has bars.
\* ------------------------------------------------------------------------
eval_intervals == <<"5m", "10m", "15m", "30m", "1h", "2h", "3h", "4h", "1d", "1w">>

intraday_intervals == {"5m", "10m", "15m", "30m", "1h", "2h", "3h", "4h"}

SomeBars == frame_of({<<1, 0>>, <<2, 0>>, <<8, 0>>}, "rising")

\* `data and interval in data and not data[interval].empty`
in_map(data, interval) == interval \in DOMAIN data /\ data[interval] # <<>>

\* the data selection at the head of evaluate_interval: the call it makes
\* to the data source ("none" if it makes none) and the frame it goes on
\* with; response is what the data source answers if it is called
select_data_frame(data, interval, response) ==
    LET selected(call, frame) == [fetch |-> call, status |-> "ok", frame |-> frame]
        failed(call) == [fetch |-> call, status |-> "raised", frame |-> <<>>]
        fetched(call) == IF response.status = "raised" THEN failed(call)
                         ELSE selected(call, response.frame)
    IN IF in_map(data, interval) THEN selected("none", data[interval])
       ELSE IF interval = "1w"
       THEN IF in_map(data, "1d")
            THEN selected("none", resample_weekly(data["1d"]).rows)
            ELSE IF response.status = "raised" THEN failed("yf.history")
                 ELSE selected("yf.history", resample_weekly(response.frame).rows)
       ELSE IF interval \in intraday_intervals THEN fetched("download_stock_data")
       ELSE IF interval = "1d" THEN fetched("yf.history")
       ELSE selected("none", <<>>)

Responses ==
    {[status |-> "raised", frame |-> <<>>],
     [status |-> "returned", frame |-> <<>>],
     [status |-> "returned", frame |-> SomeBars]}

FrameStates == {"missing", "empty", "bars"}

family_of(interval) ==
    CASE interval \in {"5m", "10m", "15m", "30m"} -> 1
      [] interval \in {"1h", "2h", "3h", "4h"} -> 2
      [] interval = "1d" -> 3
      [] OTHER -> 4

data_map_of(st) ==
    [interval \in {iv \in Range(eval_intervals) : st[family_of(iv)] # "missing"} |->
        IF st[family_of(interval)] = "bars" THEN SomeBars ELSE <<>>]

PtInit ==
    \E kind \in {"CD", "MC"}, st \in [1..4 -> FrameStates] :
        /\ \E f \in 1..4 : st[f] = "bars"
        /\ pt_kind = kind
        /\ pt_data = data_map_of(st)
        /\ pt_i = 1
        /\ pt_results = <<>>
        /\ pt_fetches = <<>>

\* one pass of the loop body `result = evaluate_interval(ticker, interval,
\* data=data); if result: results.append(result)`
evaluate_next(response) ==
    LET interval == eval_intervals[pt_i]
        sel == select_data_frame(pt_data, interval, response)
    IN /\ pt_fetches' = IF sel.fetch = "none" THEN pt_fetches
                        ELSE Append(pt_fetches, [interval |-> interval, call |-> sel.fetch])
       /\ pt_results' = IF sel.status = "ok" /\ sel.frame # <<>>
                        THEN Append(pt_results, [interval |-> interval,
                                                 bars |-> Len(sel.frame)])
                        ELSE pt_results
       /\ pt_i' = pt_i + 1
       /\ UNCHANGED <<pt_kind, pt_data>>

EvaluateIntervalOfTicker ==
    /\ pt_kind = "CD" /\ pt_i <= Len(eval_intervals)
    /\ \E response \in Responses : evaluate_next(response)

EvaluateMcIntervalOfTicker ==
    /\ pt_kind = "MC" /\ pt_i <= Len(eval_intervals)
    /\ \E response \in Responses : evaluate_next(response)

InitAcquire ==
    PtInit /\ IndIdle /\ EvIdle /\ CpIdle /\ RsIdle /\ TfIdle /\ AzIdle /\ SlIdle
        /\ PuIdle

NextAcquire ==
    (EvaluateIntervalOfTicker \/ EvaluateMcIntervalOfTicker)
        /\ UNCHANGED <<indVars, evVars, cpVars, rsVars, tfVars, azVars, slVars,
                       puVars>>

SpecAcquire == InitAcquire /\ [][NextAcquire]_vars

\* C23: given a pre-fetched data map, the per-ticker evaluation
\* (evaluate_interval for each interval, CD and MC) never calls the data
\* source: an interval whose bar sequence is missing or empty in the map is
\* skipped with no record produced and no fetch.
C23_NoFetchDuringEvaluation ==
    /\ pt_fetches = <<>>
    /\ \A k \in 1..Len(pt_results) : in_map(pt_data, pt_results[k].interval)

\* the intervals that are in the map with bars are evaluated from the map
C23_MapFramesUsed ==
    \A j \in 1..(pt_i - 1) :
        in_map(pt_data, eval_intervals[j]) =>
            /\ \E k \in 1..Len(pt_results) :
                  /\ pt_results[k].interval = eval_intervals[j]
                  /\ pt_results[k].bars = Len(pt_data[eval_intervals[j]])
            /\ \A k \in 1..Len(pt_fetches) : pt_fetches[k].interval # eval_intervals[j]

\* ------------------------------------------------------------------------
\* SpecUnits: process_ticker_1234 / process_ticker_5230 and their MC
\* variants, one (ticker, interval) unit per step.
\*
\* A frame of data_ticker carries the signal column the indicator computes
\* on it.  The frames of the four intervals are missing or hold no, one or
\* two signals.  The computation of a unit runs through, or the indicator
\* raises, or the scoring of one of the unit's signals raises.
\* ------------------------------------------------------------------------
NoFrame == 0 - 1

\* the frame of a unit with n signals: a bar without a signal and then a
\* bar with a signal, n times over
unit_frame(n) ==
    [i \in 1..(2 * n + 1) |-> [date |-> i, signal |-> i % 2 = 0]]

\* data_ticker.get(interval, pd.DataFrame())
frame_in(data_ticker, interval) ==
    IF interval \in DOMAIN data_ticker THEN data_ticker[interval] ELSE <<>>

\* data.index[cd], in index order
signal_bars(data) ==
    rows_where(data, {i \in 1..Len(data) : data[i].signal})

\* the rows the body of the try statement appends to results before it
\* completes or raises: the indicator is computed first, then each signal
\* is scored and its row appended
unit_rows(ticker, family, interval, data, outcome) ==
    LET bars == signal_bars(data)
    IN [k \in 1..outcome.scored |->
           detail_row(family, ticker, interval, bars[k].date)]

\* what can happen in the unit: the body runs through after scoring every
\* signal, or it raises after scoring some of them (none when the indicator
\* or the scoring of the first signal raises)
unit_outcomes(data) ==
    {[raised |-> FALSE, scored |-> Len(signal_bars(data))]}
        \cup {[raised |-> TRUE, scored |-> k] : k \in 0..(Len(signal_bars(data)) - 1)}
        \cup {[raised |-> TRUE, scored |-> 0]}

UnitShapes ==
    {st \in [1..4 -> {NoFrame, 0, 1, 2}] : st[3] \in {NoFrame, 2} /\ st[4] \in {NoFrame, 1}}

PuInit ==
    \E kind \in {"CD", "MC"}, family \in Families, st \in UnitShapes :
        /\ pu_kind = kind
        /\ pu_family = family
        /\ pu_data = [interval \in {intervals_of(family)[k] :
                                       k \in {j \in 1..4 : st[j] # NoFrame}} |->
                         unit_frame(st[CHOOSE k \in 1..4 :
                                          intervals_of(family)[k] = interval])]
        /\ pu_i = 1
        /\ pu_results = <<>>
        /\ pu_raised = {}

\* one pass of `for interval in intervals`
process_interval ==
    LET interval == intervals_of(pu_family)[pu_i]
        data == frame_in(pu_data, interval)
    IN /\ pu_i <= 4
       /\ pu_i' = pu_i + 1
       /\ IF data = <<>>
          THEN UNCHANGED <<pu_results, pu_raised>>
          ELSE \E outcome \in unit_outcomes(data) :
                  /\ pu_results' = pu_results \o
                         unit_rows("XYZ", pu_family, interval, data, outcome)
                  /\ pu_raised' = IF outcome.raised
                                  THEN pu_raised \cup {interval}
                                  ELSE pu_raised
       /\ UNCHANGED <<pu_kind, pu_family, pu_data>>

ProcessTickerCD == pu_kind = "CD" /\ process_interval

ProcessTickerMC == pu_kind = "MC" /\ process_interval

InitUnits ==
    PuInit /\ IndIdle /\ EvIdle /\ CpIdle /\ RsIdle /\ TfIdle /\ AzIdle /\ SlIdle
        /\ PtIdle

NextUnits ==
    (ProcessTickerCD \/ ProcessTickerMC)
        /\ UNCHANGED <<indVars, evVars, cpVars, rsVars, tfVars, azVars, slVars,
                       ptVars>>

SpecUnits == InitUnits /\ [][NextUnits]_vars

\* the rows of results that belong to the unit of an interval
PuRowsOf(interval) ==
    rows_where(pu_results,
        {k \in 1..Len(pu_results) : pu_results[k].interval = interval})

\* the intervals the loop has gone through
PuProcessed == {intervals_of(pu_family)[k] : k \in 1..(pu_i - 1)}

\* C24: if the indicator or scoring computation for one (ticker, interval)
\* unit raises inside process_ticker_1234 / process_ticker_5230 (or the MC
\* variants), the returned results contain no rows for that unit, and the
\* remaining intervals of that ticker are still processed.
C24_FailedUnitOmitted ==
    /\ \A interval \in pu_raised : PuRowsOf(interval) = <<>>
    /\ \A interval \in PuProcessed \ pu_raised :
          Len(PuRowsOf(interval)) = Len(signal_bars(frame_in(pu_data, interval)))

\* the remaining intervals are processed after a unit has raised, and a
\* unit that raised has rows only for signals that precede the failure
C24_BatchContinues ==
    /\ \A interval \in PuProcessed \ pu_raised :
          Len(PuRowsOf(interval)) = Len(signal_bars(frame_in(pu_data, interval)))
    /\ \A interval \in pu_raised :
          Len(PuRowsOf(interval)) < Len(signal_bars(frame_in(pu_data, interval)))
             \/ signal_bars(frame_in(pu_data, interval)) = <<>>

\* a unit raised and a later unit of the ticker has its rows
C24_LaterUnitProcessed ==
    \E a, b \in 1..4 :
        /\ a < b /\ b < pu_i
        /\ intervals_of(pu_family)[a] \in pu_raised
        /\ intervals_of(pu_family)[b] \notin pu_raised
        /\ PuRowsOf(intervals_of(pu_family)[b]) # <<>>

\* the horizon set H of the specification
EvHorizonsH == {3, 5, 10, 15, 20, 25, 30, 40, 50, 60, 80, 100}

\* every return recorded at any reported horizon
EvAllReturns == UNION {Range(EvRec.stats[h].returns) : h \in DOMAIN EvRec.stats}

\* C25 as stated: the CD evaluator and the MC evaluator report their
\* per-horizon statistics (test_count, success_rate, avg_return) over the
\* same fixed horizon set H = {3,5,10,15,20,25,30,40,50,60,80,100}.
C25_SameHorizonSet ==
    EvReturned => DOMAIN EvRec.stats = EvHorizonsH

\* C25 amended: the CD evaluator reports the per-horizon statistics over H,
\* the MC evaluator over every horizon 0..100 (H included, horizon 0 being
\* the signal bar itself, whose return is 0 and never a success); in both,
\* max_return and min_return are the largest and the smallest return
\* recorded at any reported horizon (0 when none is recorded) and the
\* average return of a horizon lies between them.
C25_HorizonSets ==
    EvReturned =>
        /\ DOMAIN EvRec.stats = IF ev_kind = "CD" THEN EvHorizonsH ELSE 0..100
        /\ EvHorizonsH \subseteq DOMAIN EvRec.stats
        /\ ev_kind = "MC" =>
              /\ \A r \in Range(EvRec.stats[0].returns) : r = 0
              /\ EvRec.stats[0].success_rate = 0
        /\ EvRec.max_return = IF EvAllReturns = {} THEN 0 ELSE SetMax(EvAllReturns)
        /\ EvRec.min_return = IF EvAllReturns = {} THEN 0 ELSE SetMin(EvAllReturns)
        /\ \A h \in DOMAIN EvRec.stats :
              EvRec.stats[h].test_count > 0 =>
                  /\ EvRec.min_return <= EvRec.stats[h].avg_return
                  /\ EvRec.stats[h].avg_return <= EvRec.max_return

\* C25 witness: an MC record with an occurrence counted at horizon 0 and at
\* horizon 1, with a gain at one horizon and a loss at another
C25_Witness ==
    /\ EvReturned
    /\ ev_kind = "MC"
    /\ EvRec.stats[0].test_count > 0
    /\ EvRec.stats[1].test_count > 0
    /\ EvRec.max_return > 0
    /\ EvRec.min_return < 0

\* the duration of the target interval, in minutes
TfT == interval_minutes(tf_interval)

\* the output bars that have base bar i among their constituents
TfBarsOf(i) ==
    {k \in 1..Len(tf_out.rows) : i \in TfConstituents(tf_out.rows[k])}

\* C26: every bar output by transform_1h_data / transform_5m_data
\* aggregates only base bars inside the 09:30-16:00 session, all of one
\* calendar date, whose timestamps lie in one window
\* [open + k*T, open + (k+1)*T) anchored at the 09:30 session open, and is
\* stamped with that window's start; the last window of a date is emitted
\* even when it is shorter than T; and every in-session base bar is a
\* constituent of exactly one output bar.
C26_SessionAnchoredWindows ==
    (tf_pc = "returned" /\ tf_op # "1w" /\ tf_out.status = "returned") =>
        /\ \A k \in 1..Len(tf_out.rows) :
              LET b == tf_out.rows[k]
                  S == TfConstituents(b)
              IN /\ b.time >= SessionOpen /\ b.time <= SessionClose
                 /\ (b.time - SessionOpen) % TfT = 0
                 /\ S # {} /\ S \subseteq TfInSession
                 /\ b.Volume = TfVolume(S)
                 /\ \A j \in 1..Len(tf_out.rows) :
                       (tf_out.rows[j].date = b.date /\ tf_out.rows[j].time = b.time)
                           => j = k
        /\ \A i \in TfInSession : Cardinality(TfBarsOf(i)) = 1

\* C26 witness: the frame has a bar before the session open, two dates, and
\* an output bar whose window runs past the session close and holds a base
\* bar, next to an output bar that aggregates two base bars
C26_Witness ==
    /\ tf_pc = "returned" /\ tf_op # "1w" /\ tf_out.status = "returned"
    /\ \E i \in 1..Len(tf_df) : tf_df[i].time < SessionOpen
    /\ \E i, j \in TfInSession : tf_df[i].date # tf_df[j].date
    /\ \E k \in 1..Len(tf_out.rows) :
          tf_out.rows[k].time + TfT > SessionClose
    /\ \E k \in 1..Len(tf_out.rows) :
          Cardinality(TfConstituents(tf_out.rows[k])) >= 2

\* the interval family of the download that has returned
TfFamily == IF tf_op = "download_1234" THEN "1234" ELSE "5230"

\* the bars obtained by resampling the raw base series directly
TfDirect(interval) == frame_or_empty(transform_data(tf_df, interval))

\* C27: download_data_1234 / download_data_5230 overwrite the '1h' / '5m'
\* entry with its session-resampled form and derive the coarser intervals
\* from that entry, and the resulting 2h/3h/4h (10m/15m/30m) bars are
\* identical to the bars obtained by resampling the raw base series
\* directly.
C27_DerivedFromResampledBase ==
    (tf_pc = "returned" /\ tf_op \in {"download_1234", "download_5230"}) =>
        /\ DOMAIN tf_data_ticker = required_intervals(TfFamily)
        /\ \A interval \in required_intervals(TfFamily) :
              tf_data_ticker[interval] = TfDirect(interval)

\* C27 witness: the raw series has bars outside the session and on two
\* dates, the base entry differs from it, and a coarser bar of the result
\* spans two bars of the base entry
C27_Witness ==
    /\ tf_pc = "returned" /\ tf_op \in {"download_1234", "download_5230"}
    /\ \E i \in 1..Len(tf_df) : i \notin TfInSession
    /\ \E i, j \in TfInSession : tf_df[i].date # tf_df[j].date
    /\ tf_data_ticker[intervals_of(TfFamily)[1]] # tf_df
    /\ LET base == tf_data_ticker[intervals_of(TfFamily)[1]]
           coarse == tf_data_ticker[intervals_of(TfFamily)[2]]
       IN \E k \in 1..Len(coarse) :
             Cardinality({i \in 1..Len(base) :
                 /\ base[i].date = coarse[k].date
                 /\ base[i].time >= coarse[k].time
                 /\ base[i].time < coarse[k].time
                        + interval_minutes(intervals_of(TfFamily)[2])}) >= 2

\* C28: in every evaluation record test_count_h has the same value for all
\* horizons h: an occurrence is evaluated only when max(H) fits inside the
\* series, so every evaluated occurrence has a defined return at every
\* horizon and is counted at each of them.
C28_SameTestCountAtEveryHorizon ==
    EvReturned =>
        /\ \A h \in DOMAIN EvRec.stats :
              EvRec.stats[h].test_count = Len(EvRec.returns_df)
        /\ \A k \in 1..Len(EvRec.returns_df) :
              /\ (EvRec.returns_df[k].date - 1) + SetMax(DOMAIN EvRec.stats) < EvN
              /\ \A h \in DOMAIN EvRec.stats : EvRec.returns_df[k].ret[h] # NaN

\* C28 witness: two occurrences are counted at every horizon while a later
\* occurrence, with room for the shortest horizon but not for the longest,
\* is counted at none
C28_Witness ==
    /\ EvReturned
    /\ \A h \in DOMAIN EvRec.stats : EvRec.stats[h].test_count = 2
    /\ \E p \in EvRecent :
          /\ p \notin EvEvaluated
          /\ (p - 1) + 3 < EvN

\* the series cp_data with every bar after the CD occurrence replaced
CpWithTail(bar) ==
    LET keep(x, v) == [j \in 1..CpLen |-> IF j <= cp_cd_pos THEN x[j] ELSE v]
    IN [high  |-> keep(cp_data.high, bar.high),
        low   |-> keep(cp_data.low, bar.low),
        close |-> keep(cp_data.close, bar.close)]

\* the series cp_data cut after its first n bars
CpCutTo(n) ==
    [high  |-> SubSeq(cp_data.high, 1, n),
     low   |-> SubSeq(cp_data.low, 1, n),
     close |-> SubSeq(cp_data.close, 1, n)]

\* series that agree with cp_data on every bar up to and including the CD
\* occurrence: other bars after the occurrence, or fewer bars after it (the
\* occurrence is still evaluated: 100 bars follow it)
CpSameUpToOccurrence ==
    {CpWithTail(bar) : bar \in ValidBars}
        \cup {CpCutTo(n) : n \in (cp_cd_pos + 100)..CpLen}

\* the classification the occurrence gets on another series
CpMetricsOn(data) ==
    evaluate_mc_at_top_price(data, cp_mc_pos, data.close[cp_mc_pos], cp_cd_pos)

\* C29: the companion classification recorded for a signal occurrence at
\* bar c uses no look-ahead: for two bar series that agree on every bar up
\* to and including c (and may differ or have different lengths
\* afterwards), mc_at_top_price and mc_criteria_met for that occurrence
\* are the same.
C29_NoLookAhead ==
    cp_pc = "returned" =>
        \A data \in CpSameUpToOccurrence :
            /\ CpMetricsOn(data).is_at_top_price = cp_metrics.is_at_top_price
            /\ CpMetricsOn(data).criteria_met = cp_metrics.criteria_met

\* the two sub-heuristics that read the bars up to the occurrence only
C29_RangeAndDeclineUseNoLookAhead ==
    cp_pc = "returned" =>
        \A data \in CpSameUpToOccurrence :
            /\ CpMetricsOn(data).is_near_lookback_high
                  = cp_metrics.is_near_lookback_high
            /\ CpMetricsOn(data).is_followed_by_decline
                  = cp_metrics.is_followed_by_decline

\* ------------------------------------------------------------------------
\* SpecStockVersions: successive save_stock_list calls for one list name,
\* with get_stock_list queries in between, on a database that is new or
\* holds another list.  The ticker lists saved are empty, have one ticker,
\* two tickers out of alphabetical order, or the same ticker twice.
\* ------------------------------------------------------------------------
SaveLists == {<<>>, <<"XYZ">>, <<"MNO", "ABC">>, <<"ABC", "ABC">>}

SvInit ==
    \E other \in BOOLEAN :
        /\ sl_file = <<>>
        /\ sl_db = IF other
                   THEN save_stock_list(<<>>, OtherList, <<"XYZ", "ABC">>, TRUE)
                   ELSE <<>>
        /\ sl_loads = <<>>
        /\ sl_direct = <<>>
        /\ sl_saves = <<>>

\* save_stock_list(list_name, tickers, update_existing), which returns the
\* version it has used
SaveStockList ==
    /\ Len(sl_saves) < MaxSaves
    /\ \E tickers \in SaveLists, update_existing \in BOOLEAN :
          /\ sl_db' = save_stock_list(sl_db, ListName, tickers, update_existing)
          /\ sl_saves' = Append(sl_saves,
                             [tickers |-> tickers,
                              update_existing |-> update_existing,
                              version |-> next_version(sl_db, ListName)])
    /\ UNCHANGED <<sl_file, sl_loads, sl_direct>>

InitStockVersions ==
    SvInit /\ IndIdle /\ EvIdle /\ CpIdle /\ RsIdle /\ TfIdle /\ AzIdle /\ PtIdle
        /\ PuIdle

NextStockVersions ==
    (SaveStockList \/ GetStockList)
        /\ UNCHANGED <<indVars, evVars, cpVars, rsVars, tfVars, azVars, ptVars,
                       puVars>>

SpecStockVersions == InitStockVersions /\ [][NextStockVersions]_vars

\* the rows of the list in the table, in insertion order
SvRows == rows_where(sl_db, {k \in 1..Len(sl_db) : sl_db[k].list_name = ListName})

\* every save so far was made with update_existing = True
SvAllUpdating(saves) == \A k \in 1..Len(saves) : saves[k].update_existing

\* the highest version an earlier save has stored rows under (0 if none)
SvPreviousMax(k) ==
    SetMax({0} \cup {sl_saves[j].version :
                        j \in {i \in 1..(k - 1) : sl_saves[i].tickers # <<>>}})

\* the tickers stored under a version, in insertion order
SvStoredUnder(version) ==
    LET rows == rows_where(SvRows, {k \in 1..Len(SvRows) : SvRows[k].version = version})
    IN [k \in 1..Len(rows) |-> rows[k].ticker]

\* a and b hold the same tickers the same number of times
SvSameTickers(a, b) ==
    \A t \in Range(Tickers) :
        Cardinality({k \in 1..Len(a) : a[k] = t})
            = Cardinality({k \in 1..Len(b) : b[k] = t})

\* C30: after any sequence of save_stock_list calls for one list name with
\* update_existing=True, each call has stored its tickers under a version
\* one greater than the previous maximum for that name, all active rows of
\* the list belong to its highest version, and get_stock_list(name) returns
\* exactly the tickers of the most recent save (each as many times as it
\* was saved).
C30_VersionedSaves ==
    /\ SvAllUpdating(sl_saves) =>
          /\ \A k \in 1..Len(sl_saves) :
                /\ sl_saves[k].version = SvPreviousMax(k) + 1
                /\ sl_saves[k].tickers # <<>> =>
                      SvStoredUnder(sl_saves[k].version) = sl_saves[k].tickers
          /\ \A k \in 1..Len(SvRows) :
                SvRows[k].is_active =>
                    SvRows[k].version = SetMax({SvRows[j].version : j \in 1..Len(SvRows)})
    /\ (sl_direct # <<>> /\ sl_direct[1].version = LatestActive
          /\ sl_direct[1].saves # <<>> /\ SvAllUpdating(sl_direct[1].saves)) =>
          SvSameTickers(sl_direct[1].rows,
                        sl_direct[1].saves[Len(sl_direct[1].saves)].tickers)

\* C30 witness: three saves with update_existing=True, the last two with
\* different tickers, and a query after the third that returns two tickers
C30_Witness ==
    /\ Len(sl_saves) = 3 /\ SvAllUpdating(sl_saves)
    /\ sl_saves[2].tickers # <<>>
    /\ sl_saves[3].tickers # sl_saves[2].tickers
    /\ sl_saves[3].version = 3
    /\ sl_direct # <<>> /\ sl_direct[1].saves = sl_saves
    /\ sl_direct[1].version = LatestActive
    /\ Len(sl_direct[1].rows) = 2

====
